---- MODULE Spec2Model ----
(***************************************************************************)
(* State-machine model of the MSColab socket layer                         *)
(* (mslib/mscolab/sockets_manager.py, utils.py, models.py).                *)
(*                                                                         *)
(* Every socket.io event handler of SocketsManager is one action.  The     *)
(* variable `emitted` holds, in order, the events the last handler sent    *)
(* and to which connections they were delivered; `last` names the last     *)
(* handler, its connection, the user its token resolved to and its op_id.  *)
(***************************************************************************)
EXTENDS Integers, Sequences, FiniteSets, TLC

\* ------------------------------------------------------------------ bounds
MaxSockets == 2         \* entries kept in SocketsManager.sockets
MaxMessages == 1        \* Message rows ever created
MaxChanges == 1         \* Change rows ever created
MaxThread == 3          \* Message rows ever created in a chat conversation
MaxCalls == 2           \* operation-selected events handled by one thread
MaxDrops == 2           \* transport failures of the client's connection
MaxPicks == 2           \* rows selected in the merge dialog
MaxTicks == 2           \* steps of the clock while tokens are generated and verified

\* ------------------------------------------------------------- value sets
None == 0               \* Python None where a user / message id is expected
NoSid == "none"         \* Python None where a session id is expected
Users == {1, 2}         \* ids of the rows of the users table
TokenIds == {1, 2, 3}   \* "id" payloads a decodable token may carry
Ops == {1, 2}           \* operation ids
Sids == {"a", "b"}      \* socket.io session ids (request.sid)
Texts == {"hi"}         \* message_text of chat-message
NewTexts == {"yo"}      \* new_message_text of edit-message
Contents == {"wp"}      \* document contents sent with file-save
TopLevel == -1          \* reply_id sentinel of a top-level chat message
AccessLevels == {"admin", "collaborator", "viewer", "creator"}

\* A token as the server sees it: `ok` is whether jwt.decode accepts it
\* (signature and expiry), `id` is the user id of its payload.
Tokens == [id : TokenIds, ok : {TRUE}] \cup {[id |-> 1, ok |-> FALSE]}

VARIABLES
    connected,                    \* session ids of the live socket.io connections
    rooms,                        \* rooms[s]: the socket.io rooms connection s joined
    sockets,                      \* SocketsManager.sockets: list of {s_id, u_id}
    active_users_per_operation,   \* dict op_id -> set of user ids, in insertion order
    permissions,                  \* rows of the permissions table
    messages,                     \* rows of the messages table
    next_message_id,              \* autoincrement of messages.id
    changes,                      \* rows of the changes table, oldest first
    emitted,                      \* events sent by the last handler, in order
    last,                         \* the last handler that ran
    race,                         \* handlers run as threads, statement by statement
    manager,                      \* the client's ConnectionManager and its socket
    msui,                         \* the client's MSUIMscolab object
    auth                          \* the token last generated, the clock, its verification

vars == <<connected, rooms, sockets, active_users_per_operation, permissions,
          messages, next_message_id, changes, emitted, last, race, manager, msui,
          auth>>

session == <<connected, rooms, sockets, active_users_per_operation>>
store == <<permissions, messages, next_message_id, changes>>
\* what a handler run as one step does not touch
elsewhere == <<race, manager, msui, auth>>

\* ------------------------------------------------------------ pure helpers

\* str(op_id): the room name of an operation
str(n) == ToString(n)

\* verify_auth_token that decodes without verifying signature and expiry
verify_auth_token_unverified(token) ==
    IF token.id \in Users THEN token.id ELSE None

\* User.verify_auth_token: None for an undecodable token and for a token
\* whose user id has no row
verify_auth_token(token) ==
    IF ~token.ok THEN None
    ELSE IF token.id \in Users THEN token.id ELSE None

\* utils.get_user_id: the u_id of the last entry with this s_id
get_user_id(socks, s_id) ==
    LET idx == {i \in 1..Len(socks) : socks[i].s_id = s_id}
    IN IF idx = {} THEN None
       ELSE socks[CHOOSE i \in idx : \A j \in idx : j <= i].u_id

\* get_session_id that returns at the first entry with this u_id
get_session_id_first(socks, u_id) ==
    LET idx == {i \in 1..Len(socks) : socks[i].u_id = u_id}
    IN IF idx = {} THEN NoSid
       ELSE socks[CHOOSE i \in idx : \A j \in idx : i <= j].s_id

\* utils.get_session_id: the s_id of the last entry with this u_id
get_session_id(socks, u_id) ==
    LET idx == {i \in 1..Len(socks) : socks[i].u_id = u_id}
    IN IF idx = {} THEN NoSid
       ELSE socks[CHOOSE i \in idx : \A j \in idx : j <= i].s_id

\* Permission.query.filter_by(u_id=, op_id=).first()
permission_first(perms, u_id, op_id) ==
    LET rows == {p \in perms : p.u_id = u_id /\ p.op_id = op_id}
    IN IF rows = {} THEN {} ELSE {CHOOSE p \in rows : TRUE}

\* permission_check_emit without the viewer test
permission_check_emit_any_level(perms, u_id, op_id) ==
    permission_first(perms, u_id, op_id) # {}

\* permission_check_emit that caches a positive answer: a user who has posted
\* in the operation before is let through without a new query
permission_check_emit_cached(perms, u_id, op_id) ==
    \/ \E m \in messages : m.u_id = u_id /\ m.op_id = op_id
    \/ \E p \in permission_first(perms, u_id, op_id) : p.access_level # "viewer"

\* permission_check_emit that refuses viewers and lets a user without a
\* Permission row through
permission_check_emit_unless_viewer(perms, u_id, op_id) ==
    ~\E p \in permission_first(perms, u_id, op_id) : p.access_level = "viewer"

\* SocketsManager.permission_check_emit
permission_check_emit(perms, u_id, op_id) ==
    LET permission == permission_first(perms, u_id, op_id)
    IN IF permission = {} THEN FALSE
       ELSE IF \E p \in permission : p.access_level = "viewer" THEN FALSE
       ELSE TRUE

\* SocketsManager.permission_check_admin: the set of values a call returns,
\* one value, or none when the call raises.  The row found by first() is used
\* without a test: with no row, None.access_level raises AttributeError.
permission_check_admin(perms, u_id, op_id) ==
    LET permission == permission_first(perms, u_id, op_id)
    IN IF permission = {} THEN {}
       ELSE IF \E p \in permission : p.access_level = "creator" \/ p.access_level = "admin"
            THEN {TRUE}
            ELSE {FALSE}

\* socketio.emit(event, data) without `to`/`room`: a broadcast, delivered to
\* every connected client of the namespace
emit(event, op, arg, clients) ==
    [event |-> event, op |-> op, arg |-> arg, to |-> clients]

\* keys of the presence dict and the set stored under a key
active_keys(active) == {active[i].op_id : i \in 1..Len(active)}
active_set(active, op_id) ==
    LET idx == {i \in 1..Len(active) : active[i].op_id = op_id}
    IN IF idx = {} THEN {} ELSE active[CHOOSE i \in idx : TRUE].user_ids

\* update_active_users that removes the user from a copy of each set: the
\* updates are emitted, the dict keeps the user
update_active_users_on_copy(active, user_id, clients) ==
    LET touched == SelectSeq(active, LAMBDA e : user_id \in e.user_ids)
    IN [active |-> active,
        emits |-> [i \in 1..Len(touched) |->
                     emit("active-user-update", touched[i].op_id,
                          Cardinality(touched[i].user_ids \ {user_id}), clients)]]

\* update_active_users that deletes the whole entry the user was found in
update_active_users_drop_entry(active, user_id, clients) ==
    LET touched == SelectSeq(active, LAMBDA e : user_id \in e.user_ids)
    IN [active |-> SelectSeq(active, LAMBDA e : user_id \notin e.user_ids),
        emits |-> [i \in 1..Len(touched) |->
                     emit("active-user-update", touched[i].op_id,
                          Cardinality(touched[i].user_ids \ {user_id}), clients)]]

\* update_active_users that takes the count before it removes the user
update_active_users_count_first(active, user_id, clients) ==
    LET touched == SelectSeq(active, LAMBDA e : user_id \in e.user_ids)
        kept == SelectSeq(active, LAMBDA e : ~(user_id \in e.user_ids /\ e.user_ids \ {user_id} = {}))
    IN [active |-> [i \in 1..Len(kept) |-> [kept[i] EXCEPT !.user_ids = @ \ {user_id}]],
        emits |-> [i \in 1..Len(touched) |->
                     emit("active-user-update", touched[i].op_id,
                          Cardinality(touched[i].user_ids), clients)]]

\* update_active_users that leaves the key of an emptied set in the dict
update_active_users_keep_key(active, user_id, clients) ==
    LET touched == SelectSeq(active, LAMBDA e : user_id \in e.user_ids)
    IN [active |-> [i \in 1..Len(active) |-> [active[i] EXCEPT !.user_ids = @ \ {user_id}]],
        emits |-> [i \in 1..Len(touched) |->
                     emit("active-user-update", touched[i].op_id,
                          Cardinality(touched[i].user_ids \ {user_id}), clients)]]

\* SocketsManager.update_active_users: walk the dict in order, remove user_id
\* from every set holding it, delete the key of a set that became empty, and
\* emit one active-user-update per set touched
update_active_users(active, user_id, clients) ==
    LET touched == SelectSeq(active, LAMBDA e : user_id \in e.user_ids)
        kept == SelectSeq(active, LAMBDA e : ~(user_id \in e.user_ids /\ e.user_ids \ {user_id} = {}))
    IN [active |-> [i \in 1..Len(kept) |-> [kept[i] EXCEPT !.user_ids = @ \ {user_id}]],
        emits |-> [i \in 1..Len(touched) |->
                     emit("active-user-update", touched[i].op_id,
                          Cardinality(touched[i].user_ids \ {user_id}), clients)]]

\* remove_socket that drops only the first entry of this session id
remove_socket_first(socks, s_id) ==
    LET idx == {i \in 1..Len(socks) : socks[i].s_id = s_id}
    IN IF idx = {} THEN socks
       ELSE LET k == CHOOSE i \in idx : \A j \in idx : i <= j
            IN SubSeq(socks, 1, k - 1) \o SubSeq(socks, k + 1, Len(socks))

\* handle_disconnect, line 150: drop every entry of this session id
remove_socket(socks, s_id) == SelectSeq(socks, LAMBDA d : d.s_id # s_id)

\* what `last` records of a handler run: its event, its connection and whether
\* that connection was live, the token presented, the user resolved, the op_id
NoToken == [id |-> None, ok |-> FALSE]
ran(h, s, token, u, op) ==
    [h |-> h, sid |-> s, live |-> s \in connected, tok |-> token, u |-> u, op |-> op]

\* ------------------------------------------------- handlers as threads
\* Without mutual exclusion the statements of handle_operation_selected and
\* update_active_users of two handlers interleave.  The dict then has to be
\* seen as Python has it: keys bound to set objects, which the snapshot taken
\* by list(...items()) keeps referring to after the dict has changed.
\*   race.dict    the dict, in insertion order: entries [op_id, ref]
\*   race.heap    the set objects: ref -> set of user ids
\*   race.th[t]   thread t, which handles the events of user t: the line it
\*                is at, its op_id, its snapshot and position in it, its
\*                active_count, the op_id of its last completed call, the
\*                line at which its last call raised KeyError
\*   race.overlapped   some call began while another was in progress
Threads == Users

idle_thread ==
    [pc |-> "idle", op |-> None, items |-> <<>>, k |-> 0, count |-> 0,
     calls |-> 0, done |-> None, raised |-> None]

NoThreads ==
    [dict |-> <<>>, heap |-> <<>>, th |-> [t \in Threads |-> idle_thread],
     overlapped |-> FALSE]

\* the dict as the mapping op_id -> set of user ids
presence(r) ==
    [i \in 1..Len(r.dict) |->
        [op_id |-> r.dict[i].op_id, user_ids |-> r.heap[r.dict[i].ref]]]

dict_keys(r) == {r.dict[i].op_id : i \in 1..Len(r.dict)}
dict_ref(r, op_id) ==
    r.dict[CHOOSE i \in 1..Len(r.dict) : r.dict[i].op_id = op_id].ref

\* a thread's call ends: normally, or with KeyError raised at a line
finished(th, line) ==
    [th EXCEPT !.pc = "idle", !.items = <<>>, !.k = 0, !.count = 0,
               !.done = IF line = None THEN th.op ELSE None,
               !.op = None, !.raised = line]

\* the loop of update_active_users moves to the next item, or the function
\* returns to line 73
next_item(th) ==
    IF th.k < Len(th.items)
    THEN [th EXCEPT !.pc = "157", !.k = th.k + 1, !.count = 0]
    ELSE [th EXCEPT !.pc = "73", !.items = <<>>, !.k = 0, !.count = 0]

\* one statement of a thread was executed: the new shared state and the
\* events the statement sent
step(r, events) ==
    /\ race' = r
    /\ active_users_per_operation' = presence(r)
    /\ emitted' = events
    /\ UNCHANGED <<connected, rooms, sockets, store, last, manager, msui, auth>>

\* an `if op_id not in ...` that is taken whatever the dict holds
key_missing_always(r, op_id) == TRUE

\* line 73: op_id not in self.active_users_per_operation
key_missing(r, op_id) == op_id \notin dict_keys(r)

\* the handler of thread t is dispatched: token verified, lines 63-67
select_begin(t, op_id) ==
    /\ race.th[t].pc = "idle"
    /\ race.th[t].calls < MaxCalls
    /\ step([race EXCEPT
               !.th[t] = [idle_thread EXCEPT !.pc = "156", !.op = op_id,
                                             !.calls = race.th[t].calls + 1],
               !.overlapped = @ \/ \E o \in Threads \ {t} : race.th[o].pc # "idle"],
            <<>>)

\* line 156: list(self.active_users_per_operation.items())
line_156(t) ==
    /\ race.th[t].pc = "156"
    /\ step([race EXCEPT !.th[t] =
               IF race.dict = <<>> THEN [@ EXCEPT !.pc = "73"]
               ELSE [@ EXCEPT !.pc = "157", !.items = race.dict, !.k = 1]],
            <<>>)

\* line 157: if user_id in user_ids
line_157(t) ==
    /\ race.th[t].pc = "157"
    /\ LET th == race.th[t] IN
       step([race EXCEPT !.th[t] =
               IF t \in race.heap[th.items[th.k].ref]
               THEN [th EXCEPT !.pc = "158"]
               ELSE next_item(th)],
            <<>>)

\* line 158: user_ids.remove(user_id)
line_158(t) ==
    /\ race.th[t].pc = "158"
    /\ LET th == race.th[t] IN
       step([race EXCEPT !.heap[th.items[th.k].ref] = @ \ {t},
                         !.th[t].pc = "159"],
            <<>>)

\* line 159: active_count = len(user_ids)
line_159(t) ==
    /\ race.th[t].pc = "159"
    /\ LET th == race.th[t] IN
       step([race EXCEPT !.th[t].count = Cardinality(race.heap[th.items[th.k].ref]),
                         !.th[t].pc = "161"],
            <<>>)

\* line 161: if user_ids
line_161(t) ==
    /\ race.th[t].pc = "161"
    /\ LET th == race.th[t] IN
       step([race EXCEPT !.th[t].pc =
               IF race.heap[th.items[th.k].ref] # {} THEN "163" ELSE "166"],
            <<>>)

\* line 163: emit the count of a set that still has users
line_163(t) ==
    /\ race.th[t].pc = "163"
    /\ LET th == race.th[t] IN
       step([race EXCEPT !.th[t] = next_item(th)],
            <<emit("active-user-update", th.items[th.k].op_id, th.count, connected)>>)

\* line 166: del self.active_users_per_operation[op_id]; KeyError when the
\* key is not in the dict
line_166(t) ==
    /\ race.th[t].pc = "166"
    /\ LET th == race.th[t]
           op_id == th.items[th.k].op_id
       IN IF op_id \in dict_keys(race)
          THEN step([race EXCEPT
                       !.dict = SelectSeq(race.dict, LAMBDA e : e.op_id # op_id),
                       !.th[t].pc = "167"],
                    <<>>)
          ELSE step([race EXCEPT !.th[t] = finished(th, 166)], <<>>)

\* line 167: emit count 0 for the deleted key
line_167(t) ==
    /\ race.th[t].pc = "167"
    /\ LET th == race.th[t] IN
       step([race EXCEPT !.th[t] = next_item(th)],
            <<emit("active-user-update", th.items[th.k].op_id, 0, connected)>>)

\* line 73: if op_id not in self.active_users_per_operation
line_73(t) ==
    /\ race.th[t].pc = "73"
    /\ step([race EXCEPT !.th[t].pc =
               IF key_missing(race, race.th[t].op) THEN "74" ELSE "75"],
            <<>>)

\* line 74: self.active_users_per_operation[op_id] = set(); a key that is in
\* the dict keeps its place and gets the new object
line_74(t) ==
    /\ race.th[t].pc = "74"
    /\ LET op_id == race.th[t].op
           ref == Len(race.heap) + 1
           entry == [op_id |-> op_id, ref |-> ref]
       IN step([race EXCEPT
                  !.heap = Append(race.heap, {}),
                  !.dict = IF op_id \in dict_keys(race)
                           THEN [i \in 1..Len(race.dict) |->
                                   IF race.dict[i].op_id = op_id THEN entry
                                   ELSE race.dict[i]]
                           ELSE Append(race.dict, entry),
                  !.th[t].pc = "75"],
               <<>>)

\* line 75: self.active_users_per_operation[op_id].add(user.id); KeyError
\* when the key is not in the dict
line_75(t) ==
    /\ race.th[t].pc = "75"
    /\ LET th == race.th[t] IN
       IF th.op \in dict_keys(race)
       THEN step([race EXCEPT !.heap[dict_ref(race, th.op)] = @ \cup {t},
                              !.th[t].pc = "78"],
                 <<>>)
       ELSE step([race EXCEPT !.th[t] = finished(th, 75)], <<>>)

\* line 78: active_count = len(self.active_users_per_operation[op_id])
line_78(t) ==
    /\ race.th[t].pc = "78"
    /\ LET th == race.th[t] IN
       IF th.op \in dict_keys(race)
       THEN step([race EXCEPT
                    !.th[t].count = Cardinality(race.heap[dict_ref(race, th.op)]),
                    !.th[t].pc = "79"],
                 <<>>)
       ELSE step([race EXCEPT !.th[t] = finished(th, 78)], <<>>)

\* line 79: emit the count of the selected operation; the handler returns
line_79(t) ==
    /\ race.th[t].pc = "79"
    /\ LET th == race.th[t] IN
       step([race EXCEPT !.th[t] = finished(th, None)],
            <<emit("active-user-update", th.op, th.count, connected)>>)

\* ------------------------------------------------------------ the client
\* socketio.Client(reconnection_attempts=5), socket_control.py line 64
reconnection_attempts == 5

\* the token the logged-in client holds: a valid token of user 1
ClientToken == [id |-> 1, ok |-> TRUE]

\* manager.phase   "none": no ConnectionManager yet; "connecting": sio.connect
\*                 called; "up": connected; "reconnecting": the transport
\*                 failed and the socket.io client tries again; "failed": it
\*                 gave up
\* manager.sid     the session id of the client's connection
\* manager.start_on  the connection on which `start` was emitted
\* manager.attempts  reconnection attempts made since the transport failed
\* manager.drops     transport failures so far
NoManager ==
    [phase |-> "none", sid |-> NoSid, start_on |-> NoSid, attempts |-> 0, drops |-> 0]

client_frame == <<session, store, emitted, last, race, msui, auth>>

\* ConnectionManager.__init__, lines 64-65: sio.connect(url) is called
ConnectionManager_connect ==
    /\ manager.phase = "none"
    /\ manager' = [manager EXCEPT !.phase = "connecting"]
    /\ UNCHANGED client_frame

\* ConnectionManager.__init__, lines 68-91: connect returned with session s;
\* the handlers of the inbound events are registered, none for `connect`, and
\* start{token} is emitted
ConnectionManager_start(s) ==
    /\ manager.phase = "connecting"
    /\ s \in connected
    /\ manager' = [manager EXCEPT !.phase = "up", !.sid = s, !.start_on = s]
    /\ UNCHANGED client_frame

\* the client notices that its transport is gone and starts to reconnect
sio_lost ==
    /\ manager.phase = "up"
    /\ manager.sid \notin connected
    /\ manager' = [manager EXCEPT !.phase = "reconnecting", !.sid = NoSid,
                                  !.start_on = NoSid, !.attempts = 0,
                                  !.drops = @ + 1]
    /\ UNCHANGED client_frame

\* a reconnection attempt fails; after reconnection_attempts of them the
\* client stops
sio_attempt_fails ==
    /\ manager.phase = "reconnecting"
    /\ connected = {}
    /\ manager' = IF manager.attempts + 1 >= reconnection_attempts
                  THEN [manager EXCEPT !.phase = "failed", !.attempts = @ + 1]
                  ELSE [manager EXCEPT !.attempts = @ + 1]
    /\ UNCHANGED client_frame

\* a reconnection attempt succeeded with the new session s: the client is
\* connected again; no handler is registered for `connect`, nothing is emitted
sio_reconnected(s) ==
    /\ manager.phase = "reconnecting"
    /\ s \in connected
    /\ manager' = [manager EXCEPT !.phase = "up", !.sid = s, !.attempts = 0]
    /\ UNCHANGED client_frame

\* ----------------------------------------------------- the client window
\* MSUIMscolab, the object behind the MSColab part of the main window.
\*   msui.mscolab_server_url, token, active_op_id, access_level,
\*   local_ftml_file, waypoints_model     the attributes of these names
\*   msui.conn            whether self.conn is a ConnectionManager (not None)
\*   msui.local_active    ui.local_active
\*   msui.work_locally    ui.workLocallyCheckbox.isChecked()
\*   msui.files           the local operation files on disk, by operation
\*   msui.sent            the events the ConnectionManager emitted in the last
\*                        client action, in order
\*   msui.merge_dialog    the merge dialog shown in the last client action:
\*                        its three models, the button used and what
\*                        exec_() returned
\*   msui.signal_reload   the op_id a sender of the ConnectionManager emitted
\*                        signal_reload with in the last client action, None
\*                        if none did
\*   msui.user_count      the number that ui.userCountLabel shows
\*   msui.inbound         the event of the server that the last client action
\*                        handled, NoInbound if it handled none
\*   msui.depth           verify_user_token.depth, the nesting counter of the
\*                        decorator
\*   msui.raised_at       the value of the counter where the last client
\*                        action raised an exception, 0 if it raised none
\*   msui.logouts         how often the decorator called logout() in the
\*                        last client action
\*   msui.checks          what _verify_user_token returned in the last client
\*                        action, call by call, the outermost call first
\*   msui.body            the wrapped function whose body ran in the last
\*                        client action, "none" if none did
\*   msui.raised          an MSColabConnectionError is propagating; FALSE
\*                        whenever a client action has returned
NoUrl == "None"                     \* mscolab_server_url is None
ServerUrl == "http://mscolab"       \* the url given at login
NoLevel == "None"                   \* access_level is None
NoModel == <<None>>                 \* waypoints_model is None
NoXml == [ftml |-> <<None>>]        \* no xml content: None, or no file on disk

\* the flight tracks of the model: lists of waypoints, the empty one included
WaypointModels == {<<>>, <<1>>, <<1, 2>>}

\* waypoints_model.get_xml_content(), as called in lines 1383 and 2146
get_xml_content(waypoints_model) == [ftml |-> waypoints_model]

\* ft.WaypointsTableModel(xml_content=...), as called in lines 1423 and 1448
WaypointsTableModel(xml_content) == xml_content.ftml

\* what the server answers to get_operation_by_id: "False", or the document
NoResponse == [ok |-> FALSE, xml_content |-> NoXml]
Responses ==
    {[ok |-> TRUE, xml_content |-> get_xml_content(w)] : w \in WaypointModels}
        \cup {NoResponse}

\* the rows selected in the two upper tables of the merge dialog, in the
\* order of their selection
Picks == [table : {"local", "server"}, row : 1..2]
PickLists ==
    {p \in UNION {[1..n -> Picks] : n \in 0..MaxPicks} :
        \A i, j \in 1..Len(p) : p[i] = p[j] => i = j}

\* what the user does with the merge dialog: one of its three buttons, then
\* closing it if it is still open; or closing it at once
Buttons == {"overwriteBtn", "keepServerBtn", "saveBtn", "close"}

NoDialog ==
    [shown |-> FALSE, fetch |-> FALSE, local |-> NoModel, server |-> NoModel,
     merged |-> <<>>, button |-> "close", accepted |-> FALSE]

NoInbound == [event |-> "none", op_id |-> None, count |-> 0]

\* the counts an active-user-update carries
Counts == 0..Cardinality(Users)

NoMsui ==
    [mscolab_server_url |-> NoUrl, token |-> NoToken, conn |-> FALSE,
     active_op_id |-> None, access_level |-> NoLevel, local_active |-> TRUE,
     work_locally |-> FALSE, local_ftml_file |-> None,
     waypoints_model |-> NoModel, files |-> [op \in Ops |-> NoXml],
     merge_dialog |-> NoDialog, sent |-> <<>>, signal_reload |-> None,
     user_count |-> 0, inbound |-> NoInbound,
     depth |-> 0, raised_at |-> 0, logouts |-> 0,
     checks |-> <<>>, body |-> "none", raised |-> FALSE]

\* raise MSColabConnectionError
raise(m) == [m EXCEPT !.raised = TRUE, !.raised_at = m.depth]

\* the function whose body starts to run
enter(m, func) == [m EXCEPT !.body = func]

\* a logout that leaves the active operation and its access level in place
logout_keeps_operation(m) ==
    IF m.mscolab_server_url = NoUrl THEN m
    ELSE [m EXCEPT !.local_active = TRUE, !.conn = FALSE, !.token = NoToken,
                   !.local_ftml_file = None, !.mscolab_server_url = NoUrl,
                   !.work_locally = FALSE, !.user_count = 0]

\* MSUIMscolab.logout, lines 2004-2080; that conn.disconnect() was called
\* shows as conn turning FALSE
logout(m) ==
    IF m.mscolab_server_url = NoUrl THEN m
    ELSE [m EXCEPT !.local_active = TRUE, !.conn = FALSE, !.token = NoToken,
                   !.active_op_id = None, !.access_level = NoLevel,
                   !.local_ftml_file = None, !.mscolab_server_url = NoUrl,
                   !.work_locally = FALSE, !.user_count = 0]

\* lines 87-89: the counter is incremented, then _verify_user_token is called
\* and returns valid
checked(m, valid) == [m EXCEPT !.depth = @ + 1, !.checks = Append(@, valid)]

\* lines 100-101, the finally clause
finally(m) == [m EXCEPT !.depth = @ - 1]

\* a decorator that decrements its counter only where the call returns
verify_user_token_without_finally(m, valid, result) ==
    IF m.mscolab_server_url = NoUrl THEN m
    ELSE LET r == IF valid THEN result ELSE raise(checked(m, valid))
         IN IF ~r.raised THEN finally(r)
            ELSE IF r.depth > 1 THEN r
            ELSE logout([r EXCEPT !.raised = FALSE, !.logouts = @ + 1])

\* the decorator verify_user_token, lines 78-102. valid is what
\* _verify_user_token returned, result is what func gives when it is run on
\* checked(m, valid).
verify_user_token(m, valid, result) ==
    IF m.mscolab_server_url = NoUrl THEN m
    ELSE LET r == IF valid THEN result ELSE raise(checked(m, valid))
         IN IF ~r.raised THEN finally(r)
            ELSE IF r.depth > 1 THEN finally(r)
            ELSE finally(logout([r EXCEPT !.raised = FALSE, !.logouts = @ + 1]))

\* request_wps_from_server, lines 1874-1882; its return value is
\* response.xml_content where it does not raise
request_wps_from_server(m, valid, response) ==
    verify_user_token(m, valid,
                      IF response.ok THEN checked(m, valid)
                      ELSE raise(checked(m, valid)))

\* load_wps_from_server, lines 1884-1892
load_wps_from_server(m, valid, response) ==
    IF m.work_locally THEN m
    ELSE LET r == request_wps_from_server(m, valid, response) IN
         IF r.raised THEN r
         ELSE [r EXCEPT !.waypoints_model = WaypointsTableModel(response.xml_content)]

\* reload_window, lines 1480-1483, with reload_wps_from_server, 1903-1907
reload_window(m, value, valid, response) ==
    IF m.active_op_id # value \/ m.work_locally THEN m
    ELSE IF m.active_op_id = None THEN m
    ELSE load_wps_from_server(m, valid, response)

\* self.sio.emit(event, ...) of the ConnectionManager: the socket.io client
\* raises a SocketIOError (BadNamespaceError) when it is not connected
sio_emit(m, event, op_id, content) ==
    IF manager.phase # "up" THEN raise(m)
    ELSE [m EXCEPT !.sent = Append(@, [event |-> event, op_id |-> op_id,
                                       token |-> m.token, content |-> content])]

\* ConnectionManager.send_message, edit_message, delete_message and save_file,
\* lines 167-219: valid is what verify_user_token(url, token) returned; with
\* a valid token the event is emitted, else signal_reload(op_id), which is
\* connected to reload_window (mscolab.py line 712). valid_nested is what the
\* token check of a wrapped call made from there returns.
conn_sender(m, valid, event, op_id, content, valid_nested, response) ==
    IF valid THEN sio_emit(m, event, op_id, content)
    ELSE reload_window([m EXCEPT !.signal_reload = op_id],
                       op_id, valid_nested, response)

\* ConnectionManager.save_file, lines 205-219, as save_wp_mscolab calls it:
\* while working locally reload_window makes no wrapped call
conn_save_file(m, valid, op_id, content, response) ==
    conn_sender(m, valid, "file-save", op_id, content, FALSE, response)

\* merge_waypoints_list after handle_selection has run for each selected row
merge_waypoints_list(local, server, picks) ==
    [i \in 1..Len(picks) |->
        (IF picks[i].table = "local" THEN local ELSE server)[picks[i].row]]

\* the rows that can be selected: those of the two models shown
selectable(local, server, picks) ==
    \A i \in 1..Len(picks) :
        picks[i].row <= Len(IF picks[i].table = "local" THEN local ELSE server)

\* MscolabMergeWaypointsDialog, lines 2083-2152: exec_() and get_values()
\* of a dialog in which the rows `picks` were selected and `button` was used.
\* overwriteBtn is hidden in a fetch dialog, saveBtn is disabled unless more
\* than one row is selected, and save_waypoints leaves the dialog open for
\* a model without rows.
MscolabMergeWaypointsDialog(local, server, fetch, picks, button) ==
    LET merged == merge_waypoints_list(local, server, picks)
        usable == CASE button = "overwriteBtn" -> ~fetch
                    [] button = "keepServerBtn" -> TRUE
                    [] button = "saveBtn" -> Len(merged) > 1
                    [] OTHER -> FALSE
        waypoints_model == CASE button = "overwriteBtn" -> local
                             [] button = "keepServerBtn" -> server
                             [] OTHER -> merged
        accepted == usable /\ Len(waypoints_model) # 0
    IN [accepted |-> accepted,
        xml_content |-> IF accepted THEN get_xml_content(waypoints_model) ELSE NoXml,
        shown |-> [shown |-> TRUE, fetch |-> fetch, local |-> local,
                   server |-> server, merged |-> merged, button |-> button,
                   accepted |-> accepted]]

\* create_local_operation_file, lines 1375-1383
create_local_operation_file(m) ==
    IF m.files[m.active_op_id] # NoXml THEN m
    ELSE [m EXCEPT !.files[m.active_op_id] = get_xml_content(m.waypoints_model)]

\* reload_local_wp, lines 1385-1389
reload_local_wp(m) ==
    [m EXCEPT !.waypoints_model = WaypointsTableModel(m.files[m.local_ftml_file])]

\* the body of set_active_op_id, lines 1739-1797; item is the row of the
\* operation list that was activated
set_active_op_id_body(m, item, valid, response) ==
    IF ~m.local_active /\ item.op_id = m.active_op_id THEN m
    ELSE LET selected == [m EXCEPT !.work_locally = FALSE,
                                   !.active_op_id = item.op_id,
                                   !.access_level = item.access_level,
                                   !.waypoints_model = NoModel]
             loaded == load_wps_from_server(selected, valid, response)
         IN IF loaded.raised THEN loaded
            ELSE sio_emit([loaded EXCEPT !.local_active = FALSE],
                          "operation-selected", item.op_id, NoXml)

\* the body of handle_work_locally_toggle, lines 1344-1372
handle_work_locally_toggle_body(m, valid, response) ==
    IF m.work_locally
    THEN reload_local_wp([create_local_operation_file(m)
                             EXCEPT !.local_ftml_file = m.active_op_id])
    ELSE load_wps_from_server([m EXCEPT !.local_ftml_file = None,
                                           !.waypoints_model = NoModel],
                              valid, response)

\* the body of fetch_wp_mscolab, lines 1421-1436
fetch_wp_mscolab_body(m, valid, response, picks, button) ==
    LET r == request_wps_from_server(m, valid, response)
        merge_dialog == MscolabMergeWaypointsDialog(
                            m.waypoints_model,
                            WaypointsTableModel(response.xml_content),
                            TRUE, picks, button)
        xml_content == merge_dialog.xml_content
        closed == [r EXCEPT !.merge_dialog = merge_dialog.shown]
    IN IF r.raised THEN r
       ELSE IF merge_dialog.accepted /\ xml_content # NoXml
       THEN [closed EXCEPT !.waypoints_model = WaypointsTableModel(xml_content),
                           !.files[m.local_ftml_file] = xml_content]
       ELSE closed

\* a save_wp_mscolab that sends the local flight track when the dialog
\* returned nothing
save_wp_mscolab_body_whatever(m, valid, response, picks, button, valid_conn) ==
    LET r == request_wps_from_server(m, valid, response)
        merge_dialog == MscolabMergeWaypointsDialog(
                            m.waypoints_model,
                            WaypointsTableModel(response.xml_content),
                            FALSE, picks, button)
        xml_content == IF merge_dialog.accepted THEN merge_dialog.xml_content
                       ELSE get_xml_content(m.waypoints_model)
        closed == [r EXCEPT !.merge_dialog = merge_dialog.shown]
    IN IF r.raised THEN r
       ELSE LET saved == conn_save_file(closed, valid_conn, m.active_op_id,
                                        xml_content, response)
            IN IF saved.raised THEN saved
               ELSE [saved EXCEPT !.waypoints_model = WaypointsTableModel(xml_content),
                                  !.files[m.local_ftml_file] = xml_content]

\* the body of save_wp_mscolab, lines 1439-1456
save_wp_mscolab_body(m, valid, response, picks, button, valid_conn) ==
    LET r == request_wps_from_server(m, valid, response)
        merge_dialog == MscolabMergeWaypointsDialog(
                            m.waypoints_model,
                            WaypointsTableModel(response.xml_content),
                            FALSE, picks, button)
        xml_content == merge_dialog.xml_content
        closed == [r EXCEPT !.merge_dialog = merge_dialog.shown]
    IN IF r.raised THEN r
       ELSE IF merge_dialog.accepted /\ xml_content # NoXml
       THEN LET saved == conn_save_file(closed, valid_conn, m.active_op_id,
                                        xml_content, response)
            IN IF saved.raised THEN saved
               ELSE [saved EXCEPT !.waypoints_model = WaypointsTableModel(xml_content),
                                  !.files[m.local_ftml_file] = xml_content]
       ELSE closed

\* the window has no handler running: it is not inside after_login
idle == msui.mscolab_server_url = NoUrl \/ msui.conn

\* msui as a client action finds it: nothing emitted, no body run yet
fresh ==
    [msui EXCEPT !.merge_dialog = NoDialog, !.sent = <<>>,
                 !.signal_reload = None, !.inbound = NoInbound,
                 !.raised_at = 0, !.logouts = 0,
                 !.checks = <<>>, !.body = "none"]

\* a client action ends with the window as m; a ConnectionManager that was
\* dropped by logout has had disconnect() called, lines 2012-2014
client_action(m) ==
    /\ msui' = m
    /\ manager' = IF msui.conn /\ ~m.conn
                  THEN [manager EXCEPT !.phase = "closed", !.sid = NoSid,
                                       !.start_on = NoSid]
                  ELSE manager
    /\ UNCHANGED <<session, store, emitted, last, race, auth>>

\* after_login, lines 691-706, up to the call of sio.connect
after_login ==
    /\ msui.mscolab_server_url = NoUrl
    /\ manager.phase \in {"none", "closed"}
    /\ msui' = [fresh EXCEPT !.token = ClientToken, !.mscolab_server_url = ServerUrl]
    /\ manager' = [NoManager EXCEPT !.phase = "connecting", !.drops = manager.drops]
    /\ UNCHANGED <<session, store, emitted, last, race, auth>>

\* after_login, line 706: the ConnectionManager is constructed on session s
\* and becomes self.conn
after_login_connected(s) ==
    /\ msui.mscolab_server_url # NoUrl
    /\ ~msui.conn
    /\ manager.phase = "connecting"
    /\ s \in connected
    /\ msui' = [msui EXCEPT !.conn = TRUE]
    /\ manager' = [manager EXCEPT !.phase = "up", !.sid = s, !.start_on = s]
    /\ UNCHANGED <<session, store, emitted, last, race, auth>>

\* the operation list shows the operations the user has a permission on
operation_items ==
    {[op_id |-> p.op_id, access_level |-> p.access_level] :
        p \in {q \in permissions : q.u_id = verify_auth_token(ClientToken)}}

\* the user activates an operation of the list
set_active_op_id(item, valid, valid_nested, response) ==
    /\ idle
    /\ item \in operation_items
    /\ client_action(verify_user_token(fresh, valid,
           set_active_op_id_body(enter(checked(fresh, valid), "set_active_op_id"),
                                 item, valid_nested, response)))

\* the user checks or unchecks the box "Work Asynchronously"; it is enabled
\* for a creator, admin or collaborator of the active operation
handle_work_locally_toggle(valid, valid_nested, response) ==
    /\ idle
    /\ msui.active_op_id # None
    /\ msui.access_level \in {"creator", "admin", "collaborator"}
    /\ LET toggled == [fresh EXCEPT !.work_locally = ~@] IN
       client_action(verify_user_token(toggled, valid,
           handle_work_locally_toggle_body(
               enter(checked(toggled, valid), "handle_work_locally_toggle"),
               valid_nested, response)))

\* "Fetch From Server" of the server options, shown while working locally
fetch_wp_mscolab(valid, valid_nested, response, picks, button) ==
    /\ idle
    /\ msui.work_locally
    /\ selectable(msui.waypoints_model, WaypointsTableModel(response.xml_content), picks)
    /\ client_action(verify_user_token(fresh, valid,
           fetch_wp_mscolab_body(enter(checked(fresh, valid), "fetch_wp_mscolab"),
                                 valid_nested, response, picks, button)))

\* "Save To Server" of the server options, shown while working locally
save_wp_mscolab(valid, valid_nested, response, picks, button, valid_conn) ==
    /\ idle
    /\ msui.work_locally
    /\ selectable(msui.waypoints_model, WaypointsTableModel(response.xml_content), picks)
    /\ client_action(verify_user_token(fresh, valid,
           save_wp_mscolab_body(
               enter(checked(fresh, valid), "save_wp_mscolab"),
               valid_nested, response, picks, button, valid_conn)))

\* a slot that shows the count of whatever operation the update is for
update_active_user_label_any_operation(m, op_id, count) ==
    [m EXCEPT !.user_count = count]

\* update_active_user_label, lines 1615-1619, the slot of
\* signal_active_user_update
update_active_user_label(m, op_id, count) ==
    IF m.active_op_id = op_id THEN [m EXCEPT !.user_count = count] ELSE m

\* ConnectionManager.handle_active_user_update, lines 93-100: the server's
\* active-user-update reaches the client
handle_active_user_update(op_id, count) ==
    /\ msui.conn
    /\ manager.phase = "up"
    /\ client_action(update_active_user_label(
           [fresh EXCEPT !.inbound = [event |-> "active-user-update",
                                      op_id |-> op_id, count |-> count]],
           op_id, count))

\* ConnectionManager.handle_file_change, lines 150-152: the server's
\* file-changed reaches the client; signal_reload is connected to
\* reload_window
handle_file_change(op_id, valid, response) ==
    /\ msui.conn
    /\ manager.phase = "up"
    /\ client_action(reload_window(
           [fresh EXCEPT !.inbound = [event |-> "file-changed",
                                      op_id |-> op_id, count |-> 0]],
           op_id, valid, response))

\* an exception that no wrapper caught ends in the Qt event loop
uncaught(m) == [m EXCEPT !.raised = FALSE]

\* the chat window of the active operation sends, edits or deletes a message
\* through ConnectionManager.send_message, edit_message or delete_message
conn_send_message(valid, valid_nested, response) ==
    /\ msui.conn
    /\ msui.active_op_id # None
    /\ client_action(uncaught(conn_sender(fresh, valid,
                                          "chat-message", msui.active_op_id,
                                          NoXml, valid_nested, response)))

conn_edit_message(valid, valid_nested, response) ==
    /\ msui.conn
    /\ msui.active_op_id # None
    /\ client_action(uncaught(conn_sender(fresh, valid,
                                          "edit-message", msui.active_op_id,
                                          NoXml, valid_nested, response)))

conn_delete_message(valid, valid_nested, response) ==
    /\ msui.conn
    /\ msui.active_op_id # None
    /\ client_action(uncaught(conn_sender(fresh, valid,
                                          "delete-message", msui.active_op_id,
                                          NoXml, valid_nested, response)))

\* ------------------------------------------------------------ auth tokens
\* models.py line 93: the lifetime, in seconds, of a token when none is set
default_expiration == 864000

\* models.py line 114: the leeway of jwt.decode, in seconds
leeway == 30

\* the values of EXPIRATION in the settings and of the argument expiration,
\* in seconds; None stands for a setting that is absent
Expirations == {60}
Settings == {None} \cup Expirations

\* what generate_auth_token returns when it does not reach its return statement
NoJwt == [id |-> None, exp |-> 0]

\* User.generate_auth_token, lines 88-102, of the user `id` at time `now`;
\* configured is EXPIRATION of the settings. The token is encoded and
\* returned inside the branch of `if expiration is None`.
generate_auth_token(id, configured, expiration, now) ==
    LET setting == IF configured # None THEN configured ELSE expiration
    IN IF setting = None
       THEN [id |-> id, exp |-> now + default_expiration]
       ELSE NoJwt

\* jwt.decode of lines 111-116 at time `now`, as the token the server sees:
\* it raises for what is not a token and for a token whose exp lies more
\* than the leeway in the past
jwt_decode(token, now) ==
    [id |-> token.id, ok |-> token # NoJwt /\ now < token.exp + leeway]

\* no token has been generated; the clock is at 0
NoAuth ==
    [user |-> None, configured |-> None, expiration |-> None, token |-> NoJwt,
     issued |-> 0, now |-> 0, ticks |-> 0, verified |-> FALSE, result |-> None]

\* the time that passes between two calls
Delays == {1, leeway, default_expiration} \cup Expirations

\* time passes
clock_tick(d) ==
    /\ auth.ticks < MaxTicks
    /\ auth' = [auth EXCEPT !.now = @ + d, !.ticks = @ + 1, !.verified = FALSE,
                            !.result = None]
    /\ UNCHANGED <<session, store, emitted, last, race, manager, msui>>

\* a user's token is generated
token_generated(u, configured, expiration) ==
    /\ auth' = [auth EXCEPT !.user = u, !.configured = configured,
                            !.expiration = expiration,
                            !.token = generate_auth_token(u, configured, expiration,
                                                          auth.now),
                            !.issued = auth.now, !.verified = FALSE,
                            !.result = None]
    /\ UNCHANGED <<session, store, emitted, last, race, manager, msui>>

\* the token last generated is verified
token_verified ==
    /\ auth.user # None
    /\ auth' = [auth EXCEPT !.verified = TRUE,
                            !.result = verify_auth_token(jwt_decode(auth.token,
                                                                    auth.now))]
    /\ UNCHANGED <<session, store, emitted, last, race, manager, msui>>

\* ---------------------------------------------------------------- initial
Init ==
    /\ connected = {}
    /\ rooms = [s \in Sids |-> {}]
    /\ sockets = <<>>
    /\ active_users_per_operation = <<>>
    /\ permissions = {[u_id |-> 1, op_id |-> 1, access_level |-> "creator"],
                      [u_id |-> 2, op_id |-> 1, access_level |-> "viewer"],
                      [u_id |-> 2, op_id |-> 2, access_level |-> "creator"]}
    /\ messages = {}
    /\ next_message_id = 1
    /\ changes = <<>>
    /\ emitted = <<>>
    /\ last = ran("init", NoSid, NoToken, None, None)
    /\ race = NoThreads
    /\ manager = NoManager
    /\ msui = NoMsui
    /\ auth = NoAuth

\* ---------------------------------------------------------------- session

\* a start that joins the rooms of the operations the user may write to only
rooms_of_permissions_writable(perms, u_id) ==
    {str(p.op_id) : p \in {q \in perms : q.u_id = u_id /\ q.access_level # "viewer"}}

\* handle_start_event, lines 117-133: the rooms joined, one per Permission
\* row of the user, named by the stringified operation id
rooms_of_permissions(perms, u_id) ==
    {str(p.op_id) : p \in {q \in perms : q.u_id = u_id}}

\* a client opens a connection; handle_connect only logs
handle_connect(s) ==
    /\ s \notin connected
    /\ connected' = connected \cup {s}
    /\ emitted' = <<>>
    /\ last' = ran("connect", s, NoToken, None, None)
    /\ UNCHANGED <<rooms, sockets, active_users_per_operation, store, elsewhere>>

handle_start_event(s, token) ==
    /\ s \in connected
    /\ LET user == verify_auth_token(token) IN
       /\ last' = ran("start", s, token, user, None)
       /\ emitted' = <<>>
       /\ IF user = None
          THEN UNCHANGED <<rooms, sockets>>
          ELSE /\ Len(sockets) < MaxSockets
               /\ rooms' = [rooms EXCEPT ![s] = @ \cup rooms_of_permissions(permissions, user)]
               /\ sockets' = Append(sockets, [s_id |-> s, u_id |-> user])
    /\ UNCHANGED <<connected, active_users_per_operation, store, elsewhere>>

\* an operation-selected that stores a fresh set holding the user alone
handle_operation_selected_fresh_set(s, token, op_id) ==
    /\ s \in connected
    /\ LET user == verify_auth_token(token) IN
       /\ last' = ran("operation-selected", s, token, user, op_id)
       /\ IF user = None
          THEN UNCHANGED active_users_per_operation /\ emitted' = <<>>
          ELSE LET r == update_active_users(active_users_per_operation, user, connected)
                   a1 == SelectSeq(r.active, LAMBDA e : e.op_id # op_id)
               IN /\ active_users_per_operation' =
                        Append(a1, [op_id |-> op_id, user_ids |-> {user}])
                  /\ emitted' = Append(r.emits,
                        emit("active-user-update", op_id, 1, connected))
    /\ UNCHANGED <<connected, rooms, sockets, store, elsewhere>>

\* an operation-selected that returns for a user without a permission on the
\* operation
handle_operation_selected_permitted(s, token, op_id) ==
    /\ s \in connected
    /\ LET user == verify_auth_token(token) IN
       /\ last' = ran("operation-selected", s, token, user, op_id)
       /\ IF user = None \/ ~\E p \in permissions : p.u_id = user /\ p.op_id = op_id
          THEN UNCHANGED active_users_per_operation /\ emitted' = <<>>
          ELSE LET r == update_active_users(active_users_per_operation, user, connected)
                   a1 == IF op_id \notin active_keys(r.active)
                         THEN Append(r.active, [op_id |-> op_id, user_ids |-> {}])
                         ELSE r.active
                   a2 == [i \in 1..Len(a1) |->
                            IF a1[i].op_id = op_id
                            THEN [a1[i] EXCEPT !.user_ids = @ \cup {user}]
                            ELSE a1[i]]
               IN /\ active_users_per_operation' = a2
                  /\ emitted' = Append(r.emits,
                        emit("active-user-update", op_id,
                             Cardinality(active_set(a2, op_id)), connected))
    /\ UNCHANGED <<connected, rooms, sockets, store, elsewhere>>

\* an operation-selected that takes the count before it adds the user
handle_operation_selected_count_before_add(s, token, op_id) ==
    /\ s \in connected
    /\ LET user == verify_auth_token(token) IN
       /\ last' = ran("operation-selected", s, token, user, op_id)
       /\ IF user = None
          THEN UNCHANGED active_users_per_operation /\ emitted' = <<>>
          ELSE LET r == update_active_users(active_users_per_operation, user, connected)
                   a1 == IF op_id \notin active_keys(r.active)
                         THEN Append(r.active, [op_id |-> op_id, user_ids |-> {}])
                         ELSE r.active
                   a2 == [i \in 1..Len(a1) |->
                            IF a1[i].op_id = op_id
                            THEN [a1[i] EXCEPT !.user_ids = @ \cup {user}]
                            ELSE a1[i]]
               IN /\ active_users_per_operation' = a2
                  /\ emitted' = Append(r.emits,
                        emit("active-user-update", op_id,
                             Cardinality(active_set(a1, op_id)), connected))
    /\ UNCHANGED <<connected, rooms, sockets, store, elsewhere>>

handle_operation_selected(s, token, op_id) ==
    /\ s \in connected
    /\ LET user == verify_auth_token(token) IN
       /\ last' = ran("operation-selected", s, token, user, op_id)
       /\ IF user = None
          THEN UNCHANGED active_users_per_operation /\ emitted' = <<>>
          ELSE LET r == update_active_users(active_users_per_operation, user, connected)
                   a1 == IF op_id \notin active_keys(r.active)
                         THEN Append(r.active, [op_id |-> op_id, user_ids |-> {}])
                         ELSE r.active
                   a2 == [i \in 1..Len(a1) |->
                            IF a1[i].op_id = op_id
                            THEN [a1[i] EXCEPT !.user_ids = @ \cup {user}]
                            ELSE a1[i]]
               IN /\ active_users_per_operation' = a2
                  /\ emitted' = Append(r.emits,
                        emit("active-user-update", op_id,
                             Cardinality(active_set(a2, op_id)), connected))
    /\ UNCHANGED <<connected, rooms, sockets, store, elsewhere>>

update_operation_list(s, token) ==
    /\ s \in connected
    /\ LET user == verify_auth_token(token) IN
       /\ last' = ran("update-operation-list", s, token, user, None)
       /\ emitted' = IF user = None THEN <<>>
                     ELSE <<emit("operation-list-update", None, None, connected)>>
    /\ UNCHANGED <<session, store, elsewhere>>

\* an add-user-to-operation that joins the room for the operation's creator
\* only
join_creator_to_operation_creator_only(s, token, op_id) ==
    /\ s \in connected
    /\ LET user == verify_auth_token(token) IN
       /\ last' = ran("add-user-to-operation", s, token, user, op_id)
       /\ emitted' = <<>>
       /\ rooms' = IF \E p \in permissions : /\ p.u_id = user /\ p.op_id = op_id
                                              /\ p.access_level = "creator"
                   THEN [rooms EXCEPT ![s] = @ \cup {str(op_id)}]
                   ELSE rooms
    /\ UNCHANGED <<connected, sockets, active_users_per_operation, store, elsewhere>>

\* an add-user-to-operation that also marks the user active in the operation
join_creator_to_operation_as_active(s, token, op_id) ==
    /\ s \in connected
    /\ LET user == verify_auth_token(token) IN
       /\ last' = ran("add-user-to-operation", s, token, user, op_id)
       /\ emitted' = <<>>
       /\ rooms' = IF user = None THEN rooms
                   ELSE [rooms EXCEPT ![s] = @ \cup {str(op_id)}]
       /\ active_users_per_operation' =
             IF user = None \/ op_id \in active_keys(active_users_per_operation)
             THEN active_users_per_operation
             ELSE Append(active_users_per_operation, [op_id |-> op_id, user_ids |-> {user}])
    /\ UNCHANGED <<connected, sockets, store, elsewhere>>

join_creator_to_operation(s, token, op_id) ==
    /\ s \in connected
    /\ LET user == verify_auth_token(token) IN
       /\ last' = ran("add-user-to-operation", s, token, user, op_id)
       /\ emitted' = <<>>
       /\ rooms' = IF user = None THEN rooms
                   ELSE [rooms EXCEPT ![s] = @ \cup {str(op_id)}]
    /\ UNCHANGED <<connected, sockets, active_users_per_operation, store, elsewhere>>

\* a handle_disconnect that leaves the user in the presence sets while another
\* connection of the user is registered
handle_disconnect_last_connection(s) ==
    /\ s \in connected \/ (last.h = "disconnect" /\ last.sid = s)
    /\ LET user_id == get_user_id(sockets, s)
           clients == connected \ {s}
           elsewhere_too == \E i \in 1..Len(sockets) :
                               sockets[i].u_id = user_id /\ sockets[i].s_id # s
           r == IF user_id # None /\ ~elsewhere_too
                THEN update_active_users(active_users_per_operation, user_id, clients)
                ELSE [active |-> active_users_per_operation, emits |-> <<>>]
       IN /\ connected' = clients
          /\ rooms' = [rooms EXCEPT ![s] = {}]
          /\ active_users_per_operation' = r.active
          /\ emitted' = r.emits
          /\ sockets' = remove_socket(sockets, s)
          /\ last' = ran("disconnect", s, NoToken, user_id, None)
          /\ UNCHANGED <<store, elsewhere>>

\* handle_disconnect for request.sid = s; socket.io has closed the connection,
\* which also takes it out of its rooms.  The handler runs for a live
\* connection, and may be delivered once more right after it ran.
handle_disconnect(s) ==
    /\ s \in connected \/ (last.h = "disconnect" /\ last.sid = s)
    /\ LET user_id == get_user_id(sockets, s)
           clients == connected \ {s}
           r == IF user_id # None
                THEN update_active_users(active_users_per_operation, user_id, clients)
                ELSE [active |-> active_users_per_operation, emits |-> <<>>]
       IN /\ connected' = clients
          /\ rooms' = [rooms EXCEPT ![s] = {}]
          /\ active_users_per_operation' = r.active
          /\ emitted' = r.emits
          /\ sockets' = remove_socket(sockets, s)
          /\ last' = ran("disconnect", s, NoToken, user_id, None)
          /\ UNCHANGED <<store, elsewhere>>

\* a removal that takes the user out of every operation, whatever op_id says
remove_active_user_id_from_every_operation(user_id, op_id) ==
    /\ last' = ran("remove-active-user", NoSid, NoToken, user_id, op_id)
    /\ LET r == update_active_users(active_users_per_operation, user_id, connected)
       IN active_users_per_operation' = r.active /\ emitted' = r.emits
    /\ UNCHANGED <<connected, rooms, sockets, store, elsewhere>>

\* remove_active_user_id_from_specific_operation; its caller, the HTTP
\* handler that revokes permissions, passes the user and operation concerned
remove_active_user_id_from_specific_operation(user_id, op_id) ==
    /\ last' = ran("remove-active-user", NoSid, NoToken, user_id, op_id)
    /\ IF op_id \in active_keys(active_users_per_operation)
          /\ user_id \in active_set(active_users_per_operation, op_id)
       THEN LET rest == active_set(active_users_per_operation, op_id) \ {user_id}
                shrunk == [i \in 1..Len(active_users_per_operation) |->
                             IF active_users_per_operation[i].op_id = op_id
                             THEN [active_users_per_operation[i] EXCEPT !.user_ids = rest]
                             ELSE active_users_per_operation[i]]
            IN /\ active_users_per_operation' =
                     IF rest # {} THEN shrunk
                     ELSE SelectSeq(shrunk, LAMBDA e : e.op_id # op_id)
               /\ emitted' = <<emit("active-user-update", op_id, Cardinality(rest), connected)>>
       ELSE UNCHANGED active_users_per_operation /\ emitted' = <<>>
    /\ UNCHANGED <<connected, rooms, sockets, store, elsewhere>>

\* ------------------------------------------------------------ the stores
\* ChatManager.add_message: one new row; reply_id -1 is stored as no parent
add_message(msgs, id, u_id, text, op_id, message_type, reply_id) ==
    msgs \cup {[id |-> id, op_id |-> op_id, u_id |-> u_id, text |-> text,
                message_type |-> message_type,
                reply_id |-> IF reply_id = TopLevel THEN None ELSE reply_id]}

\* ChatManager.edit_message: the row of that id gets the new text
edit_message(msgs, message_id, new_message_text) ==
    {IF m.id = message_id THEN [m EXCEPT !.text = new_message_text] ELSE m : m \in msgs}

\* a Message.replies relationship without a delete cascade
replies_cascade_off(msgs, ids) == ids

\* Message.replies with cascade='all,delete,delete-orphan': deleting a row
\* through the session deletes the rows of its replies collection, and theirs
RECURSIVE replies_cascade(_, _)
replies_cascade(msgs, ids) ==
    LET more == {m.id : m \in {x \in msgs : x.reply_id \in ids}}
    IN IF more \subseteq ids THEN ids ELSE replies_cascade(msgs, ids \cup more)

\* ChatManager.delete_message: the row of that id is deleted through the session
delete_message(msgs, message_id) ==
    {m \in msgs : m.id \notin replies_cascade(msgs, {message_id})}

\* FileManager.save_file when it succeeds: one new version of the document
save_file(chgs, op_id, content, u_id) ==
    Append(chgs, [op_id |-> op_id, u_id |-> u_id, content |-> content])

\* ------------------------------------------------------- collaboration

\* a handler that sends every new message on the event of top-level messages
chat_event_top_level(reply_id) == "chat-message-client"

\* handle_message, lines 199-202: the event a new message goes out on
chat_event(reply_id) ==
    IF reply_id = TopLevel THEN "chat-message-client" ELSE "chat-message-reply-client"

\* handle_message while fewer than `cap` Message rows have been created
handle_message_upto(cap, s, token, op_id, message_text, reply_id) ==
    /\ s \in connected
    /\ reply_id = TopLevel \/ \E m \in messages : m.id = reply_id
    /\ LET user == verify_auth_token(token) IN
       /\ last' = ran("chat-message", s, token, user, op_id)
       /\ IF user # None /\ permission_check_emit(permissions, user, op_id)
          THEN /\ next_message_id <= cap
               /\ messages' = add_message(messages, next_message_id, user, message_text,
                                          op_id, "text", reply_id)
               /\ next_message_id' = next_message_id + 1
               /\ emitted' = <<emit(chat_event(reply_id), op_id, next_message_id, connected)>>
          ELSE /\ UNCHANGED <<messages, next_message_id>>
               /\ emitted' = <<>>
    /\ UNCHANGED <<session, permissions, changes, elsewhere>>

handle_message(s, token, op_id, message_text, reply_id) ==
    handle_message_upto(MaxMessages, s, token, op_id, message_text, reply_id)

\* handle_message in a conversation of up to MaxThread messages
handle_message_thread(s, token, op_id, message_text, reply_id) ==
    handle_message_upto(MaxThread, s, token, op_id, message_text, reply_id)

\* an edit-message that announces the edit and does not store it
handle_message_edit_unsaved(s, token, op_id, message_id, new_message_text) ==
    /\ s \in connected
    /\ LET user == verify_auth_token(token) IN
       /\ last' = ran("edit-message", s, token, user, op_id)
       /\ emitted' = IF user # None /\ permission_check_emit(permissions, user, op_id)
                     THEN <<emit("edit-message-client", op_id,
                                 [message_id |-> message_id,
                                  new_message_text |-> new_message_text], connected)>>
                     ELSE <<>>
    /\ UNCHANGED <<session, permissions, messages, next_message_id, changes, elsewhere>>

\* an edit-message that changes a message of the operation named only
handle_message_edit_own_operation(s, token, op_id, message_id, new_message_text) ==
    /\ s \in connected
    /\ LET user == verify_auth_token(token) IN
       /\ last' = ran("edit-message", s, token, user, op_id)
       /\ IF /\ user # None /\ permission_check_emit(permissions, user, op_id)
             /\ \A m \in messages : m.id = message_id => m.op_id = op_id
          THEN /\ messages' = edit_message(messages, message_id, new_message_text)
               /\ emitted' = <<emit("edit-message-client", op_id,
                                    [message_id |-> message_id,
                                     new_message_text |-> new_message_text], connected)>>
          ELSE /\ UNCHANGED messages
               /\ emitted' = <<>>
    /\ UNCHANGED <<session, permissions, next_message_id, changes, elsewhere>>

handle_message_edit(s, token, op_id, message_id, new_message_text) ==
    /\ s \in connected
    /\ LET user == verify_auth_token(token) IN
       /\ last' = ran("edit-message", s, token, user, op_id)
       /\ IF user # None /\ permission_check_emit(permissions, user, op_id)
          THEN /\ messages' = edit_message(messages, message_id, new_message_text)
               /\ emitted' = <<emit("edit-message-client", op_id,
                                    [message_id |-> message_id,
                                     new_message_text |-> new_message_text], connected)>>
          ELSE /\ UNCHANGED messages
               /\ emitted' = <<>>
    /\ UNCHANGED <<session, permissions, next_message_id, changes, elsewhere>>

handle_message_delete(s, token, op_id, message_id) ==
    /\ s \in connected
    /\ LET user == verify_auth_token(token) IN
       /\ last' = ran("delete-message", s, token, user, op_id)
       /\ IF user # None /\ permission_check_emit(permissions, user, op_id)
          THEN /\ messages' = delete_message(messages, message_id)
               /\ emitted' = <<emit("delete-message-client", op_id, message_id, connected)>>
          ELSE /\ UNCHANGED messages
               /\ emitted' = <<>>
    /\ UNCHANGED <<session, permissions, next_message_id, changes, elsewhere>>

\* file_save_events that announces the change before the service message
file_save_events_swapped(op_id, message_id, u_id, clients) ==
    <<emit("file-changed", op_id, u_id, clients),
      emit("chat-message-client", op_id, message_id, clients)>>

\* the two events of a successful file-save, in the order lines 275-277 send them
file_save_events(op_id, message_id, u_id, clients) ==
    <<emit("chat-message-client", op_id, message_id, clients),
      emit("file-changed", op_id, u_id, clients)>>

\* handle_file_save; `saved` is what FileManager.save_file returns
handle_file_save(s, token, op_id, content, saved) ==
    /\ s \in connected
    /\ LET user == verify_auth_token(token) IN
       /\ last' = ran("file-save", s, token, user, op_id)
       /\ IF user # None /\ permission_check_emit(permissions, user, op_id)
          THEN IF saved
               THEN /\ Len(changes) < MaxChanges
                    /\ next_message_id <= MaxMessages
                    /\ changes' = save_file(changes, op_id, content, user)
                    /\ messages' = add_message(messages, next_message_id, user, "saved",
                                               op_id, "system", TopLevel)
                    /\ next_message_id' = next_message_id + 1
                    /\ emitted' = file_save_events(op_id, next_message_id, user, connected)
               ELSE /\ UNCHANGED <<messages, next_message_id, changes>>
                    /\ emitted' = <<>>
          ELSE /\ saved = FALSE
               /\ UNCHANGED <<messages, next_message_id, changes>>
               /\ emitted' = <<>>
    /\ UNCHANGED <<session, permissions, elsewhere>>

\* -------------------------------------------- permission administration
\* The HTTP handlers that change permissions change the table and then call
\* the emit_* methods of SocketsManager.

can_administer(perms, u_id, op_id) ==
    \E p \in perms : p.u_id = u_id /\ p.op_id = op_id /\ p.access_level \in {"admin", "creator"}

emit_new_permission(u_id, op_id, clients) == emit("new-permission", op_id, u_id, clients)
emit_update_permission(u_id, op_id, clients) == emit("update-permission", op_id, u_id, clients)
emit_revoke_permission(u_id, op_id, clients) == emit("revoke-permission", op_id, u_id, clients)

add_permission(by, u_id, op_id, access_level) ==
    /\ can_administer(permissions, by, op_id)
    /\ ~\E p \in permissions : p.u_id = u_id /\ p.op_id = op_id
    /\ permissions' = permissions \cup
                        {[u_id |-> u_id, op_id |-> op_id, access_level |-> access_level]}
    /\ emitted' = <<emit_new_permission(u_id, op_id, connected)>>
    /\ last' = ran("new-permission", NoSid, NoToken, u_id, op_id)
    /\ UNCHANGED <<session, messages, next_message_id, changes, elsewhere>>

modify_permission(by, u_id, op_id, access_level) ==
    /\ can_administer(permissions, by, op_id)
    /\ \E p \in permissions : /\ p.u_id = u_id /\ p.op_id = op_id
                              /\ p.access_level \notin {"creator", access_level}
                              /\ permissions' = (permissions \ {p}) \cup
                                    {[p EXCEPT !.access_level = access_level]}
    /\ emitted' = <<emit_update_permission(u_id, op_id, connected)>>
    /\ last' = ran("update-permission", NoSid, NoToken, u_id, op_id)
    /\ UNCHANGED <<session, messages, next_message_id, changes, elsewhere>>

revoke_permission(by, u_id, op_id) ==
    /\ can_administer(permissions, by, op_id)
    /\ \E p \in permissions : /\ p.u_id = u_id /\ p.op_id = op_id
                              /\ p.access_level # "creator"
                              /\ permissions' = permissions \ {p}
    /\ emitted' = <<emit_revoke_permission(u_id, op_id, connected)>>
    /\ last' = ran("revoke-permission", NoSid, NoToken, u_id, op_id)
    /\ UNCHANGED <<session, messages, next_message_id, changes, elsewhere>>

\* ------------------------------------------------------- specifications
Granted == {"admin", "collaborator", "viewer"}
MessageIds == 1..MaxMessages
ReplyIds == {TopLevel} \cup MessageIds

\* the store as the collaboration layer starts with it: user 1 created
\* operation 1; nobody modelled holds a permission on operation 2
InitCollab ==
    /\ connected = {}
    /\ rooms = [s \in Sids |-> {}]
    /\ sockets = <<>>
    /\ active_users_per_operation = <<>>
    /\ permissions = {[u_id |-> 1, op_id |-> 1, access_level |-> "creator"]}
    /\ messages = {}
    /\ next_message_id = 1
    /\ changes = <<>>
    /\ emitted = <<>>
    /\ last = ran("init", NoSid, NoToken, None, None)
    /\ race = NoThreads
    /\ manager = NoManager
    /\ msui = NoMsui
    /\ auth = NoAuth

Next ==
    \/ \E s \in Sids : handle_connect(s)
    \/ \E s \in Sids, token \in Tokens : handle_start_event(s, token)
    \/ \E s \in Sids, token \in Tokens, op_id \in Ops : handle_operation_selected(s, token, op_id)
    \/ \E s \in Sids, token \in Tokens, op_id \in Ops : join_creator_to_operation(s, token, op_id)
    \/ \E s \in Sids : handle_disconnect(s)
    \/ \E u \in Users, op_id \in Ops : remove_active_user_id_from_specific_operation(u, op_id)

CollabNext ==
    \/ handle_connect("a")
    \/ handle_disconnect("a")
    \/ \E token \in Tokens, op_id \in Ops, text \in Texts, reply_id \in ReplyIds :
          handle_message("a", token, op_id, text, reply_id)
    \/ \E token \in Tokens, op_id \in Ops, id \in MessageIds, text \in NewTexts :
          handle_message_edit("a", token, op_id, id, text)
    \/ \E token \in Tokens, op_id \in Ops, id \in MessageIds :
          handle_message_delete("a", token, op_id, id)
    \/ \E token \in Tokens, op_id \in Ops, content \in Contents, saved \in BOOLEAN :
          handle_file_save("a", token, op_id, content, saved)
    \/ \E by \in Users, u \in Users, op_id \in Ops, level \in Granted :
          add_permission(by, u, op_id, level)
    \/ \E by \in Users, u \in Users, op_id \in Ops, level \in Granted :
          modify_permission(by, u, op_id, level)
    \/ \E by \in Users, u \in Users, op_id \in Ops : revoke_permission(by, u, op_id)

\* rooms and notifications: who receives what
NotifyNext ==
    \/ \E s \in Sids : handle_connect(s)
    \/ \E s \in Sids, token \in Tokens : handle_start_event(s, token)
    \/ \E s \in Sids, token \in Tokens : update_operation_list(s, token)
    \/ \E s \in Sids : handle_disconnect(s)
    \/ \E s \in Sids, token \in Tokens, op_id \in Ops, text \in Texts, reply_id \in ReplyIds :
          handle_message(s, token, op_id, text, reply_id)
    \/ \E s \in Sids, token \in Tokens, op_id \in Ops, content \in Contents, saved \in BOOLEAN :
          handle_file_save(s, token, op_id, content, saved)
    \/ \E by \in Users, u \in Users, op_id \in Ops : revoke_permission(by, u, op_id)

\* every inbound handler on one connection, whose client holds the token of
\* user 1, a token of a deleted user and an undecodable token
AuthTokens == {token \in Tokens : token.id # 2}

AuthNext ==
    \/ handle_connect("a")
    \/ handle_disconnect("a")
    \/ \E token \in AuthTokens : handle_start_event("a", token)
    \/ \E token \in AuthTokens, op_id \in Ops : handle_operation_selected("a", token, op_id)
    \/ \E token \in AuthTokens : update_operation_list("a", token)
    \/ \E token \in AuthTokens, op_id \in Ops : join_creator_to_operation("a", token, op_id)
    \/ \E token \in AuthTokens, op_id \in Ops, text \in Texts, reply_id \in ReplyIds :
          handle_message("a", token, op_id, text, reply_id)
    \/ \E token \in AuthTokens, op_id \in Ops, id \in MessageIds, text \in NewTexts :
          handle_message_edit("a", token, op_id, id, text)
    \/ \E token \in AuthTokens, op_id \in Ops, id \in MessageIds :
          handle_message_delete("a", token, op_id, id)
    \/ \E token \in AuthTokens, op_id \in Ops, content \in Contents, saved \in BOOLEAN :
          handle_file_save("a", token, op_id, content, saved)

\* a chat conversation on one connection: messages, replies and deletions
ThreadIds == 1..MaxThread

ChatNext ==
    \/ handle_connect("a")
    \/ handle_disconnect("a")
    \/ \E token \in Tokens, op_id \in Ops, text \in Texts, reply_id \in {TopLevel} \cup ThreadIds :
          handle_message_thread("a", token, op_id, text, reply_id)
    \/ \E token \in Tokens, op_id \in Ops, id \in ThreadIds :
          handle_message_delete("a", token, op_id, id)

\* the chat of two operations on one connection: messages, edits, deletions
EditNext ==
    \/ handle_connect("a")
    \/ handle_disconnect("a")
    \/ \E token \in Tokens, op_id \in Ops, text \in Texts, reply_id \in ReplyIds :
          handle_message("a", token, op_id, text, reply_id)
    \/ \E token \in Tokens, op_id \in Ops, id \in MessageIds, text \in NewTexts :
          handle_message_edit("a", token, op_id, id, text)
    \/ \E token \in Tokens, op_id \in Ops, id \in MessageIds :
          handle_message_delete("a", token, op_id, id)

\* two handlers of operation-selected, one per user, run as threads
RaceNext ==
    \/ \E t \in Threads, op_id \in Ops : select_begin(t, op_id)
    \/ \E t \in Threads : line_156(t)
    \/ \E t \in Threads : line_157(t)
    \/ \E t \in Threads : line_158(t)
    \/ \E t \in Threads : line_159(t)
    \/ \E t \in Threads : line_161(t)
    \/ \E t \in Threads : line_163(t)
    \/ \E t \in Threads : line_166(t)
    \/ \E t \in Threads : line_167(t)
    \/ \E t \in Threads : line_73(t)
    \/ \E t \in Threads : line_74(t)
    \/ \E t \in Threads : line_75(t)
    \/ \E t \in Threads : line_78(t)
    \/ \E t \in Threads : line_79(t)

\* the server accepts the connection the client is opening
accept(s) ==
    /\ manager.phase \in {"connecting", "reconnecting"}
    /\ connected = {}
    /\ handle_connect(s)

\* the start the client emitted reaches the server
deliver_start(s) ==
    /\ manager.phase = "up"
    /\ manager.start_on = s
    /\ get_user_id(sockets, s) = None
    /\ handle_start_event(s, ClientToken)

\* ConnectionManager.select_operation: operation-selected{token, op_id} is
\* emitted on the client's connection and handled by the server
select_operation(s, op_id) ==
    /\ manager.phase = "up"
    /\ manager.sid = s
    /\ handle_operation_selected(s, ClientToken, op_id)

\* the transport of the client's connection fails; the server runs
\* handle_disconnect for it
transport_fails(s) ==
    /\ manager.phase = "up"
    /\ manager.sid = s
    /\ s \in connected
    /\ manager.drops < MaxDrops
    /\ handle_disconnect(s)

\* one client, its connection and the server's view of it
ClientNext ==
    \/ ConnectionManager_connect
    \/ \E s \in Sids : accept(s)
    \/ \E s \in Sids : ConnectionManager_start(s)
    \/ \E s \in Sids : deliver_start(s)
    \/ \E s \in Sids, op_id \in Ops : select_operation(s, op_id)
    \/ \E s \in Sids : transport_fails(s)
    \/ sio_lost
    \/ sio_attempt_fails
    \/ \E s \in Sids : sio_reconnected(s)

\* the server notices that the client closed its connection
closed_seen(s) ==
    /\ manager.phase = "closed"
    /\ s \in connected
    /\ handle_disconnect(s)

\* the user logs out: logout is called directly
logout_clicked ==
    /\ msui.conn
    /\ client_action(logout(fresh))

\* the values of an input that is read only when `read` holds: where it is
\* not read, one value stands for all
ReadIf(read, values, unread) == IF read THEN values ELSE {unread}

\* the client window, its connection and the server's view of it
MsuiNext ==
    \/ after_login
    \/ \E s \in Sids : accept(s)
    \/ \E s \in Sids : after_login_connected(s)
    \/ \E s \in Sids : deliver_start(s)
    \/ \E item \in [op_id : Ops, access_level : AccessLevels], valid \in BOOLEAN :
       \E valid_nested \in ReadIf(valid, BOOLEAN, FALSE) :
       \E response \in ReadIf(valid /\ valid_nested, Responses, NoResponse) :
            set_active_op_id(item, valid, valid_nested, response)
    \/ \E valid \in BOOLEAN :
       \E valid_nested \in ReadIf(valid, BOOLEAN, FALSE) :
       \E response \in ReadIf(valid /\ valid_nested, Responses, NoResponse) :
            handle_work_locally_toggle(valid, valid_nested, response)
    \/ \E valid \in BOOLEAN :
       \E valid_nested \in ReadIf(valid, BOOLEAN, FALSE) :
       \E response \in ReadIf(valid /\ valid_nested, Responses, NoResponse) :
       \E button \in ReadIf(valid /\ valid_nested /\ response.ok, Buttons, "close") :
       \E picks \in ReadIf(button = "saveBtn", PickLists, <<>>) :
            fetch_wp_mscolab(valid, valid_nested, response, picks, button)
    \/ \E valid \in BOOLEAN :
       \E valid_nested \in ReadIf(valid, BOOLEAN, FALSE) :
       \E response \in ReadIf(valid /\ valid_nested, Responses, NoResponse) :
       \E button \in ReadIf(valid /\ valid_nested /\ response.ok, Buttons, "close") :
       \E picks \in ReadIf(button = "saveBtn", PickLists, <<>>) :
       \E valid_conn \in ReadIf(valid /\ valid_nested /\ response.ok
                                    /\ button # "close", BOOLEAN, FALSE) :
            save_wp_mscolab(valid, valid_nested, response, picks, button, valid_conn)
    \/ \E valid \in BOOLEAN :
       \E valid_nested \in ReadIf(~valid, BOOLEAN, FALSE) :
       \E response \in ReadIf(~valid /\ valid_nested, Responses, NoResponse) :
            \/ conn_send_message(valid, valid_nested, response)
            \/ conn_edit_message(valid, valid_nested, response)
            \/ conn_delete_message(valid, valid_nested, response)
    \/ logout_clicked
    \/ \E s \in Sids : closed_seen(s)

\* the life of a token
TokenNext ==
    \/ \E u \in Users, configured \in Settings, expiration \in Settings :
          token_generated(u, configured, expiration)
    \/ \E d \in Delays : clock_tick(d)
    \/ token_verified

\* the client window and the events of the server that reach it
InboundNext ==
    \/ after_login
    \/ \E s \in Sids : accept(s)
    \/ \E s \in Sids : after_login_connected(s)
    \/ \E item \in [op_id : Ops, access_level : AccessLevels], valid \in BOOLEAN :
       \E valid_nested \in ReadIf(valid, BOOLEAN, FALSE) :
       \E response \in ReadIf(valid /\ valid_nested, Responses, NoResponse) :
            set_active_op_id(item, valid, valid_nested, response)
    \/ \E valid \in BOOLEAN :
       \E valid_nested \in ReadIf(valid, BOOLEAN, FALSE) :
       \E response \in ReadIf(valid /\ valid_nested, Responses, NoResponse) :
            handle_work_locally_toggle(valid, valid_nested, response)
    \/ \E op_id \in Ops, count \in Counts : handle_active_user_update(op_id, count)
    \/ \E op_id \in Ops, valid \in BOOLEAN :
       \E response \in ReadIf(valid, Responses, NoResponse) :
            handle_file_change(op_id, valid, response)
    \/ logout_clicked
    \/ \E s \in Sids : closed_seen(s)

\* the client window over transport failures of its connection
LinkNext ==
    \/ after_login
    \/ \E s \in Sids : accept(s)
    \/ \E s \in Sids : after_login_connected(s)
    \/ \E s \in Sids : deliver_start(s)
    \/ \E item \in [op_id : Ops, access_level : AccessLevels], valid \in BOOLEAN :
       \E valid_nested \in ReadIf(valid, BOOLEAN, FALSE) :
       \E response \in ReadIf(valid /\ valid_nested, Responses, NoResponse) :
            set_active_op_id(item, valid, valid_nested, response)
    \/ logout_clicked
    \/ \E s \in Sids : closed_seen(s)
    \/ \E s \in Sids : transport_fails(s)
    \/ sio_lost
    \/ sio_attempt_fails
    \/ \E s \in Sids : sio_reconnected(s)

\* the session layer: connections, registry, rooms and presence
Spec == Init /\ [][Next]_vars

\* the collaboration layer: chat, document saves and permission changes
SpecCollab == InitCollab /\ [][CollabNext]_vars

\* delivery of chat and permission notifications to the connections
SpecNotify == Init /\ [][NotifyNext]_vars

\* all inbound handlers of one connection
SpecAuth == Init /\ [][AuthNext]_vars

\* a chat conversation with its replies
SpecChat == Init /\ [][ChatNext]_vars

\* the chat of the two operations, each with its own members
SpecEdit == Init /\ [][EditNext]_vars

\* operation-selected handlers without mutual exclusion
SpecRace == Init /\ [][RaceNext]_vars

\* the client window: login, the wrapped actions on the active operation
\* and its flight track, logout
SpecMsui == Init /\ [][MsuiNext]_vars

\* tokens generated and verified as time passes
SpecToken == Init /\ [][TokenNext]_vars

\* the client window handling the events the server sends to it
SpecInbound == Init /\ [][InboundNext]_vars

\* the client's connection over transport failures; an event emitted on a
\* connection that stays up is delivered, and the client notices a lost
\* transport
SpecClient ==
    /\ Init /\ [][ClientNext]_vars
    /\ WF_vars(\E s \in Sids : deliver_start(s))
    /\ WF_vars(sio_lost)

\* the client window over transport failures: an emitted start is delivered
\* on a connection that stays up, the socket.io client notices a lost
\* transport and keeps working through its reconnection attempts
SpecLink ==
    /\ Init /\ [][LinkNext]_vars
    /\ WF_vars(\E s \in Sids : deliver_start(s))
    /\ WF_vars(sio_lost)
    /\ WF_vars(sio_attempt_fails \/ \E s \in Sids : sio_reconnected(s))

\* ------------------------------------------------------------ vocabulary
\* the presence sets that hold user u
presence_of(u) ==
    {i \in 1..Len(active_users_per_operation) : u \in active_users_per_operation[i].user_ids}

\* the user a token stands for: it decodes and its user has a row
token_user(token) == IF token.ok /\ token.id \in Users THEN token.id ELSE None

\* a Permission row of (u, op) exists and its level is not viewer
non_viewer(perms, u, op) ==
    \E p \in perms : p.u_id = u /\ p.op_id = op /\ p.access_level # "viewer"

\* len(active_users_per_operation[op]) where the key exists, 0 where not
active_count(active, op) == Cardinality(active_set(active, op))

\* message m is below message id in the reply tree: following reply_id from m
\* upwards reaches id within n steps
RECURSIVE is_below(_, _, _, _)
is_below(msgs, m, id, n) ==
    /\ n > 0
    /\ m.reply_id # None
    /\ \/ m.reply_id = id
       \/ \E p \in msgs : p.id = m.reply_id /\ is_below(msgs, p, id, n - 1)

\* thread t returned from a selection of an operation and is not in that
\* operation's presence set
lost_user(t) ==
    /\ race.th[t].pc = "idle"
    /\ race.th[t].done # None
    /\ t \notin active_set(active_users_per_operation, race.th[t].done)

\* thread t ended with KeyError at line 75: the key it had seen in the dict
\* at line 73, or had just stored at line 74, was gone when it added the user
added_to_deleted(t) == race.th[t].raised = 75

\* the connections that joined the room of operation op
room_members(op) == {s \in Sids : str(op) \in rooms[s]}

RoomEvents == {"chat-message-client", "chat-message-reply-client", "edit-message-client",
               "delete-message-client", "file-changed"}
InboundEvents == {"start", "operation-selected", "add-user-to-operation",
                  "update-operation-list", "chat-message", "edit-message",
                  "delete-message", "file-save"}
GatedEvents == {"chat-message", "edit-message", "delete-message", "file-save"}

\* ----------------------------------------------------------------- claims

\* C1: after any sequence of operation-selected, disconnect and
\* remove-from-specific-operation events, every user id is a member of at most
\* one value set of active_users_per_operation.
C1_OnePresenceSetPerUser ==
    \A u \in Users : Cardinality(presence_of(u)) <= 1

\* a user active in one operation selected another one: two updates were sent,
\* for the operation left and for the operation entered
C1_Witness ==
    /\ last.h = "operation-selected"
    /\ last.u # None
    /\ Len(emitted) = 2
    /\ emitted[1].op # last.op
    /\ presence_of(last.u) # {}

\* C2: a chat-message with a valid token from a user who is viewer of the
\* operation, or has no permission on it, creates no Message and emits nothing.
C2_ViewerChatDropped ==
    [][(/\ last'.h = "chat-message"
        /\ token_user(last'.tok) # None
        /\ ~non_viewer(permissions, token_user(last'.tok), last'.op))
       => (messages' = messages /\ next_message_id' = next_message_id /\ emitted' = <<>>)]_vars

\* a viewer of the operation sent a chat-message
C2_Witness ==
    /\ last.h = "chat-message"
    /\ last.u # None
    /\ \E p \in permissions : p.u_id = last.u /\ p.op_id = last.op /\ p.access_level = "viewer"
    /\ emitted = <<>>

\* C3: a chat-message-client, chat-message-reply-client, edit-message-client,
\* delete-message-client or file-changed event produced for operation op is
\* delivered only to connections that joined the room of op.
C3_RoomEventsStayInRoom ==
    \A i \in 1..Len(emitted) :
        emitted[i].event \in RoomEvents => emitted[i].to \subseteq room_members(emitted[i].op)

\* C4: every active-user-update caused by operation-selected or by disconnect
\* is delivered only to the connections in the room of its op_id.
C4_PresenceUpdatesStayInRoom ==
    last.h \in {"operation-selected", "disconnect"} =>
        \A i \in 1..Len(emitted) :
            emitted[i].event = "active-user-update"
                => emitted[i].to \subseteq room_members(emitted[i].op)

\* C5: revoking user B's permission emits revoke-permission to B's own
\* connection only; no other connection receives it.
C5_RevokeOnlyToRevokedUser ==
    \A i \in 1..Len(emitted) :
        emitted[i].event = "revoke-permission"
            => emitted[i].to \subseteq {get_session_id(sockets, emitted[i].arg)}

\* C6: chat-message, edit-message, delete-message and file-save are decided on
\* the Permission row in the store at the time of the event: the event of a
\* user with a valid token takes effect only if that row exists and is not
\* viewer, and chat, edit and delete always take effect if it does.
C6_PermissionReadAtEventTime ==
    [][(last'.h \in GatedEvents /\ token_user(last'.tok) # None)
       => LET allowed == non_viewer(permissions, token_user(last'.tok), last'.op)
          IN /\ ~allowed => (emitted' = <<>> /\ UNCHANGED <<messages, changes>>)
             /\ (allowed /\ last'.h # "file-save") => emitted' # <<>>]_vars

\* a user whose chat-message was stored earlier has lost the permission since,
\* and that user's next chat-message was dropped
C6_Witness ==
    /\ last.h = "chat-message"
    /\ last.u # None
    /\ emitted = <<>>
    /\ ~non_viewer(permissions, last.u, last.op)
    /\ \E m \in messages : m.u_id = last.u /\ m.op_id = last.op /\ m.message_type = "text"

\* C7: a file-save of a user with a valid token and non-viewer permission whose
\* store write succeeds persists exactly one new version and then emits exactly
\* one system chat message and then one file-changed; when the permission
\* check fails or the write fails, nothing is emitted and no message is created.
C7_FileSaveOrder ==
    [][last'.h = "file-save"
       => LET u == token_user(last'.tok)
              op == last'.op
          IN IF changes' # changes
             THEN /\ u # None /\ non_viewer(permissions, u, op)
                  /\ Len(changes') = Len(changes) + 1
                  /\ SubSeq(changes', 1, Len(changes)) = changes
                  /\ changes'[Len(changes')].op_id = op
                  /\ \E m \in messages' :
                        /\ m \notin messages
                        /\ messages' = messages \cup {m}
                        /\ m.message_type = "system" /\ m.op_id = op /\ m.u_id = u
                        /\ Len(emitted') = 2
                        /\ emitted'[1].event = "chat-message-client" /\ emitted'[1].arg = m.id
                        /\ emitted'[2].event = "file-changed" /\ emitted'[2].op = op
             ELSE emitted' = <<>> /\ messages' = messages]_vars

\* a file-save was accepted and stored
C7_Witness ==
    /\ last.h = "file-save"
    /\ Len(changes) = 1
    /\ Len(emitted) = 2
    /\ \E m \in messages : m.message_type = "system"

\* C8: for every inbound handler, an event whose token does not verify leaves
\* the registry, the presence mapping, the room memberships and the store
\* unchanged and emits no event.
C8_BadTokenIsNoOp ==
    [][(last'.h \in InboundEvents /\ token_user(last'.tok) = None)
       => (/\ emitted' = <<>>
           /\ UNCHANGED <<sockets, active_users_per_operation, rooms, connected>>
           /\ UNCHANGED <<permissions, messages, next_message_id, changes>>)]_vars

\* a registered connection whose user is active sent an event with a bad token
C8_Witness ==
    /\ last.h \in InboundEvents
    /\ token_user(last.tok) = None
    /\ sockets # <<>>
    /\ active_users_per_operation # <<>>
    /\ messages # {}

\* C9: after handle_disconnect for a connection the registry holds no entry of
\* that connection, and the user who used it, if it was that user's only
\* connection, is in no presence set, whatever the connection sent before
\* (here: when its last event was an operation-selected and no other
\* connection was open).
C9_DisconnectUnwinds ==
    [][last'.h = "disconnect"
       => /\ \A i \in 1..Len(sockets') : sockets'[i].s_id # last'.sid
          /\ (/\ last.h = "operation-selected"
              /\ last.sid = last'.sid
              /\ token_user(last.tok) # None
              /\ connected = {last.sid})
             => \A i \in 1..Len(active_users_per_operation') :
                   token_user(last.tok) \notin active_users_per_operation'[i].user_ids]_vars

\* C10: handle_disconnect is idempotent: a second call for the same connection
\* id leaves the registry and the presence mapping as the first call left them
\* and emits no event.
C10_DisconnectIdempotent ==
    [][(last.h = "disconnect" /\ last'.h = "disconnect" /\ last'.sid = last.sid)
       => (/\ sockets' = sockets
           /\ active_users_per_operation' = active_users_per_operation
           /\ emitted' = <<>>)]_vars

\* handle_disconnect ran again for a connection that a first call had closed
C10_Witness ==
    /\ last.h = "disconnect"
    /\ ~last.live
    /\ last.sid \notin connected
    /\ emitted = <<>>

\* C11: a connection goes Connected, Authenticated, InOperation in that order
\* only: an operation-selected from a connection that has no registry entry
\* (no successful start yet) does not change presence.
C11_SelectNeedsStart ==
    [][(/\ last'.h = "operation-selected"
        /\ get_user_id(sockets, last'.sid) = None)
       => active_users_per_operation' = active_users_per_operation]_vars

\* C12: a start with a valid token registers (connection id, user id) and
\* joins the connection to the room of every operation on which the user has
\* a Permission row, whatever its level, and to the room of no other operation.
C12_StartRegistersAndJoins ==
    [][(last'.h = "start" /\ token_user(last'.tok) # None)
       => LET s == last'.sid
              u == token_user(last'.tok)
              held == {op \in Ops : \E p \in permissions : p.u_id = u /\ p.op_id = op}
          IN /\ sockets' = Append(sockets, [s_id |-> s, u_id |-> u])
             /\ \A op \in held : str(op) \in rooms'[s]
             /\ \A op \in Ops \ held : str(op) \in rooms'[s] => str(op) \in rooms[s]
             /\ \A t \in Sids \ {s} : rooms'[t] = rooms[t]]_vars

\* user 2, viewer of operation 1 and creator of operation 2, started on a
\* connection that was in no room: it is registered and in both rooms
C12_Witness ==
    /\ last.h = "start"
    /\ token_user(last.tok) = 2
    /\ sockets[Len(sockets)] = [s_id |-> last.sid, u_id |-> 2]
    /\ rooms[last.sid] = {str(1), str(2)}

\* C13: after an operation-selected with a valid token for op_id, the sending
\* connection is a member of the room of op_id (stated here for a connection
\* that is registered for the user of the token).
C13_SelectJoinsRoom ==
    (/\ last.h = "operation-selected"
     /\ token_user(last.tok) # None
     /\ get_user_id(sockets, last.sid) = token_user(last.tok))
        => last.sid \in room_members(last.op)

\* C14: an accepted chat-message is stored and then emitted exactly once: on
\* chat-message-client and never chat-message-reply-client when it is
\* top-level (reply_id -1), on chat-message-reply-client and never
\* chat-message-client when it replies to a message.
C14_ChatEventByReplyId ==
    [][(/\ last'.h = "chat-message"
        /\ token_user(last'.tok) # None
        /\ non_viewer(permissions, token_user(last'.tok), last'.op))
       => \E m \in messages' \ messages :
             /\ messages' = messages \cup {m}
             /\ Len(emitted') = 1
             /\ emitted'[1].arg = m.id
             /\ emitted'[1].event = IF m.reply_id = None THEN "chat-message-client"
                                   ELSE "chat-message-reply-client"]_vars

\* a reply to a stored message was accepted and went out as a reply
C14_Witness ==
    /\ last.h = "chat-message"
    /\ Len(emitted) = 1
    /\ emitted[1].event = "chat-message-reply-client"
    /\ \E m \in messages : m.id = emitted[1].arg /\ m.reply_id \in ThreadIds
    /\ \E m \in messages : m.reply_id = None

\* C15: permission_check_emit(u, op) is true exactly when a Permission row of
\* (u, op) exists and its access level is not viewer, for every user,
\* operation and state of the permission store.
C15_EmitCheckIsNonViewer ==
    \A u \in Users, op \in Ops :
        permission_check_emit(permissions, u, op) = non_viewer(permissions, u, op)

\* the store holds a viewer row, a row of a higher level and a pair without a
\* row, and the check has just refused the viewer's edit
C15_Witness ==
    /\ last.h = "edit-message"
    /\ emitted = <<>>
    /\ \E p \in permissions : /\ p.u_id = token_user(last.tok)
                              /\ p.op_id = last.op
                              /\ p.access_level = "viewer"
    /\ \E p \in permissions : p.access_level \in {"collaborator", "admin", "creator"}
    /\ \E u \in Users, op \in Ops : permission_first(permissions, u, op) = {}

\* C16: permission_check_admin(u, op) returns a boolean for every user,
\* operation and state of the permission store: true exactly when the access
\* level of (u, op) is admin or creator, false otherwise, also when (u, op)
\* has no Permission row.
C16_AdminCheckReturnsBoolean ==
    \A u \in Users, op \in Ops :
        permission_check_admin(permissions, u, op) =
            {\E p \in permissions : /\ p.u_id = u /\ p.op_id = op
                                    /\ p.access_level \in {"admin", "creator"}}

\* C17 as stated: for every presence state, user u and operation op, removing
\* u from all presence sets and then selecting op as u leaves the count of op
\* exactly 1 higher than before and the count of the operation u was active in
\* exactly 1 lower, its entry removed at 0.
C17_SelectMovesOneUser ==
    [][(last'.h = "operation-selected" /\ token_user(last'.tok) # None)
       => LET u == token_user(last'.tok)
              op == last'.op
          IN /\ active_count(active_users_per_operation', op) =
                   active_count(active_users_per_operation, op) + 1
             /\ \A o \in Ops : u \in active_set(active_users_per_operation, o) =>
                   /\ active_count(active_users_per_operation', o) =
                         active_count(active_users_per_operation, o) - 1
                   /\ active_count(active_users_per_operation', o) = 0
                         => o \notin active_keys(active_users_per_operation')]_vars

\* C17 amended: when u was not active in op, the count of op is exactly 1
\* higher and the count of the operation u was active in exactly 1 lower, its
\* entry removed at 0; when u was already active in op, every count, the one
\* of op included, is what it was.
C17_SelectMovesOneUserElsewhere ==
    [][(last'.h = "operation-selected" /\ token_user(last'.tok) # None)
       => LET u == token_user(last'.tok)
              op == last'.op
          IN IF u \notin active_set(active_users_per_operation, op)
             THEN /\ active_count(active_users_per_operation', op) =
                        active_count(active_users_per_operation, op) + 1
                  /\ \A o \in Ops : u \in active_set(active_users_per_operation, o) =>
                        /\ active_count(active_users_per_operation', o) =
                              active_count(active_users_per_operation, o) - 1
                        /\ active_count(active_users_per_operation', o) = 0
                              => o \notin active_keys(active_users_per_operation')
             ELSE \A o \in Ops : active_count(active_users_per_operation', o) =
                                    active_count(active_users_per_operation, o)]_vars

\* the only active user of an operation left it for one where another user is
\* active: the entry left is gone with count 0, the one entered counts 2
C17_Witness ==
    /\ last.h = "operation-selected"
    /\ Len(emitted) = 2
    /\ emitted[1].op # last.op
    /\ emitted[1].arg = 0
    /\ emitted[1].op \notin active_keys(active_users_per_operation)
    /\ emitted[2].op = last.op
    /\ emitted[2].arg = 2

\* C18: every emitted active-user-update{op_id, count} carries the number of
\* users in op_id's presence set at the moment of emission, 0 when the entry
\* was just removed.  An update sent by operation-selected before the user is
\* added to the selected operation's set was emitted when that set did not
\* hold the user yet; every other update sees the set the handler leaves.
C18_CountIsSetSize ==
    \A i \in 1..Len(emitted) :
        emitted[i].event = "active-user-update" =>
            emitted[i].arg =
                active_count(active_users_per_operation, emitted[i].op)
                - (IF /\ last.h = "operation-selected"
                      /\ i < Len(emitted)
                      /\ emitted[i].op = last.op
                   THEN 1 ELSE 0)

\* the second of two users selected an operation nobody else was active in:
\* the update carries 2, after the 1 of the first selection
C18_Witness ==
    /\ last.h = "operation-selected"
    /\ emitted = <<emit("active-user-update", last.op, 2, connected)>>
    /\ active_set(active_users_per_operation, last.op) = Users

\* C19: after every completed handler no key of active_users_per_operation
\* maps to an empty set, and whenever the last active user of an operation is
\* removed (by disconnect, re-selection or removal from that operation) the
\* entry is deleted and an active-user-update with count 0 is emitted for it.
C19_NoEmptyPresenceSet ==
    [][/\ \A i \in 1..Len(active_users_per_operation') :
             active_users_per_operation'[i].user_ids # {}
       /\ \A op \in active_keys(active_users_per_operation) :
             (\/ op \notin active_keys(active_users_per_operation')
              \/ /\ last'.h = "operation-selected"
                 /\ active_set(active_users_per_operation, op) = {token_user(last'.tok)})
             => \E i \in 1..Len(emitted') :
                   emitted'[i] = emit("active-user-update", op, 0, emitted'[i].to)
       /\ \A i \in 1..Len(emitted') :
             (emitted'[i].event = "active-user-update" /\ emitted'[i].arg = 0)
             => \/ emitted'[i].op \notin active_keys(active_users_per_operation')
                \/ last'.h = "operation-selected" /\ emitted'[i].op = last'.op]_vars

\* the connection of the only active user of an operation disconnected: the
\* entry is gone and the update with count 0 went out
C19_Witness ==
    /\ last.h = "disconnect"
    /\ Len(emitted) = 1
    /\ emitted[1].event = "active-user-update"
    /\ emitted[1].arg = 0
    /\ emitted[1].op \notin active_keys(active_users_per_operation)
    /\ active_users_per_operation # <<>>

\* C20: remove_active_user_id_from_specific_operation(u, op) removes u from
\* op's presence set only: the presence set of every other operation is
\* unchanged, and when u is not active in op, or op has no entry, the whole
\* presence mapping is unchanged and no event is emitted.
C20_RemoveFromOneOperationOnly ==
    [][last'.h = "remove-active-user"
       => LET u == last'.u
              op == last'.op
          IN /\ active_set(active_users_per_operation', op) =
                   active_set(active_users_per_operation, op) \ {u}
             /\ \A o \in Ops \ {op} :
                   /\ active_set(active_users_per_operation', o) =
                         active_set(active_users_per_operation, o)
                   /\ o \in active_keys(active_users_per_operation')
                         <=> o \in active_keys(active_users_per_operation)
             /\ u \notin active_set(active_users_per_operation, op)
                   => /\ active_users_per_operation' = active_users_per_operation
                      /\ emitted' = <<>>]_vars

\* user u was removed from an operation both users were active in: the other
\* user stays, the update carries 1
C20_Witness ==
    /\ last.h = "remove-active-user"
    /\ emitted = <<emit("active-user-update", last.op, 1, connected)>>
    /\ active_set(active_users_per_operation, last.op) = Users \ {last.u}

\* C21: an add-user-to-operation with a valid token joins the sending
\* connection to the room of op_id and changes nothing else: the presence
\* mapping and the registry are unchanged and no event is emitted.
C21_AddUserJoinsRoomOnly ==
    [][(last'.h = "add-user-to-operation" /\ token_user(last'.tok) # None)
       => /\ rooms' = [rooms EXCEPT ![last'.sid] = @ \cup {str(last'.op)}]
          /\ active_users_per_operation' = active_users_per_operation
          /\ sockets' = sockets
          /\ connected' = connected
          /\ store' = store
          /\ emitted' = <<>>]_vars

\* a connection joined the room of an operation it was not in, while a user
\* is active and a connection is registered
C21_Witness ==
    /\ last.h = "add-user-to-operation"
    /\ token_user(last.tok) # None
    /\ str(last.op) \in rooms[last.sid]
    /\ \E p \in permissions : p.u_id = token_user(last.tok) /\ p.op_id # last.op
    /\ ~\E p \in permissions : p.u_id = token_user(last.tok) /\ p.op_id = last.op
    /\ active_users_per_operation # <<>>
    /\ sockets # <<>>

\* C22: an update-operation-list with a valid token has operation-list-update
\* sent to the calling connection, and to no connection other than the caller.
C22_OperationListToCallerOnly ==
    (last.h = "update-operation-list" /\ token_user(last.tok) # None)
        => /\ Len(emitted) = 1
           /\ emitted[1].event = "operation-list-update"
           /\ emitted[1].to = {last.sid}

\* C23: edit-message and delete-message are gated like chat-message: from a
\* sender who is viewer or has no permission on op_id, no store mutation and
\* no emission; an accepted edit changes the text of the message and then
\* emits exactly one edit-message-client carrying the message id and the new
\* text; an accepted delete removes the message (with its replies) and then
\* emits exactly one delete-message-client carrying the message id.
C23_EditDeleteGated ==
    [][(last'.h \in {"edit-message", "delete-message"} /\ token_user(last'.tok) # None)
       => IF ~non_viewer(permissions, token_user(last'.tok), last'.op)
          THEN messages' = messages /\ emitted' = <<>>
          ELSE /\ Len(emitted') = 1
               /\ emitted'[1].op = last'.op
               /\ IF last'.h = "edit-message"
                  THEN /\ emitted'[1].event = "edit-message-client"
                       /\ messages' =
                            {IF m.id = emitted'[1].arg.message_id
                             THEN [m EXCEPT !.text = emitted'[1].arg.new_message_text]
                             ELSE m : m \in messages}
                  ELSE /\ emitted'[1].event = "delete-message-client"
                       /\ messages' \subseteq messages
                       /\ \A m \in messages : m.id = emitted'[1].arg => m \notin messages'
                       /\ \A m \in messages \ messages' :
                             \/ m.id = emitted'[1].arg
                             \/ is_below(messages, m, emitted'[1].arg, Cardinality(messages))]_vars

\* a stored message was edited: it has the new text, which the event carries
C23_Witness ==
    /\ last.h = "edit-message"
    /\ Len(emitted) = 1
    /\ emitted[1].event = "edit-message-client"
    /\ \E m \in messages : /\ m.id = emitted[1].arg.message_id
                           /\ m.text = emitted[1].arg.new_message_text
                           /\ m.text \in NewTexts

\* C24: the registry lookups agree with the registered pairs: get_user_id of
\* a connection is None when the connection has no entry and otherwise the
\* user of its (latest) entry; get_session_id of a user is None when the user
\* has no entry and otherwise the connection of the most recently registered
\* entry of that user still in the registry.
C24_LookupsMatchRegistry ==
    /\ \A s \in Sids :
          LET u == get_user_id(sockets, s)
          IN IF \A i \in 1..Len(sockets) : sockets[i].s_id # s
             THEN u = None
             ELSE \E i \in 1..Len(sockets) :
                     /\ sockets[i] = [s_id |-> s, u_id |-> u]
                     /\ \A j \in (i + 1)..Len(sockets) : sockets[j].s_id # s
    /\ \A u \in Users :
          LET s == get_session_id(sockets, u)
          IN IF \A i \in 1..Len(sockets) : sockets[i].u_id # u
             THEN s = NoSid
             ELSE \E i \in 1..Len(sockets) :
                     /\ sockets[i] = [s_id |-> s, u_id |-> u]
                     /\ \A j \in (i + 1)..Len(sockets) : sockets[j].u_id # u

\* a user registered on two connections, one after the other: the lookup
\* gives the later one
C24_Witness ==
    /\ last.h = "start"
    /\ Len(sockets) = 2
    /\ sockets[1].u_id = sockets[2].u_id
    /\ sockets[1].s_id # sockets[2].s_id
    /\ get_session_id(sockets, sockets[1].u_id) = sockets[2].s_id
    /\ get_user_id(sockets, sockets[1].s_id) = sockets[1].u_id
    /\ \E u \in Users : get_session_id(sockets, u) = NoSid

C26_SerializedHandlersKeepPresence ==
    [][/\ \A u \in Users :
             Cardinality({i \in 1..Len(active_users_per_operation') :
                             u \in active_users_per_operation'[i].user_ids}) <= 1
       /\ \A i, j \in 1..Len(active_users_per_operation') :
             active_users_per_operation'[i].op_id = active_users_per_operation'[j].op_id
                => i = j
       /\ \A i \in 1..Len(active_users_per_operation') :
             active_users_per_operation'[i].user_ids # {}
       /\ (/\ last.h = "operation-selected" /\ last'.h = "operation-selected"
           /\ last.op = last'.op
           /\ token_user(last.tok) # None /\ token_user(last'.tok) # None
           /\ token_user(last.tok) # token_user(last'.tok))
          => /\ {token_user(last.tok), token_user(last'.tok)}
                   \subseteq active_set(active_users_per_operation', last'.op)
             /\ emitted'[Len(emitted')] =
                   emit("active-user-update", last'.op, 2, connected')]_vars

\* both users started on their own connections and selected the same
\* operation one after the other
C26_Witness ==
    /\ last.h = "operation-selected"
    /\ Len(sockets) = 2
    /\ sockets[1].u_id # sockets[2].u_id
    /\ sockets[1].s_id # sockets[2].s_id
    /\ active_set(active_users_per_operation, last.op) = Users
    /\ emitted[Len(emitted)].arg = 2

\* C27: with the statements of handle_operation_selected and
\* update_active_users of two users interleaved, a bad state of the shared
\* presence mapping is reachable: a user who finished selecting an operation
\* is missing from its presence set, its entry overwritten by a fresh set, or
\* a handler adds to an entry another handler just deleted.  Such a state
\* needs the interleaving: it is reached only when a handler began while
\* another was in progress.
C27_BadStateOnlyByInterleaving ==
    (\E t \in Threads : lost_user(t) \/ added_to_deleted(t)) => race.overlapped

\* both users finished selecting the same operation; the set of the first
\* was overwritten by the fresh set of the second, which holds the second alone
C27_Witness ==
    \E t \in Threads, o \in Threads :
        /\ t # o
        /\ lost_user(t)
        /\ race.th[o].pc = "idle"
        /\ race.th[o].done = race.th[t].done
        /\ active_set(active_users_per_operation, race.th[t].done) = {o}
        /\ race.th[t].calls = 1 /\ race.th[o].calls = 1

\* C28: the client sends start{token} on every connect of its persistent
\* connection, each successful reconnection after a transport drop included,
\* so that after any reconnect the server eventually has the new connection
\* registered and joined to the rooms of the user's operations.
C28_StartOnEveryConnect ==
    [](manager.phase = "up"
          => <>(\/ manager.phase # "up"
                \/ /\ get_user_id(sockets, manager.sid) = token_user(ClientToken)
                   /\ rooms_of_permissions(permissions, token_user(ClientToken))
                         \subseteq rooms[manager.sid]))

\* C29: a client action wrapped by verify_user_token whose token check fails
\* at the outermost call does not run its body (no body entered, nothing
\* emitted, no local file written) and ends with the client logged out: token,
\* conn, mscolab_server_url, active_op_id and access_level are None and the
\* ConnectionManager's socket has been disconnected.
C29_FailedCheckLogsOut ==
    [][(msui'.checks # <<>> /\ ~msui'.checks[1])
          => /\ msui'.body = "none"
             /\ msui'.sent = <<>>
             /\ msui'.files = msui.files
             /\ Len(msui'.checks) = 1
             /\ msui'.token = NoToken
             /\ ~msui'.conn
             /\ msui'.mscolab_server_url = NoUrl
             /\ msui'.active_op_id = None
             /\ msui'.access_level = NoLevel
             /\ manager'.phase = "closed"]_vars

\* a client that had an operation open and worked on a local copy was logged
\* out by a failed token check
C29_Witness ==
    /\ msui.checks = <<FALSE>>
    /\ msui.mscolab_server_url = NoUrl
    /\ msui.waypoints_model # NoModel
    /\ \E op \in Ops : msui.files[op] # NoXml
    /\ manager.phase = "closed"

\* C30: in save_wp_mscolab the content of a file-save sent to the server is
\* the local, the server or the user-merged flight track of the merge dialog,
\* and at most one file-save is sent; when the dialog is rejected or the model
\* of the button used has no rows, no file-save is sent and the client's
\* waypoints model and local files are as before; fetch_wp_mscolab never sends
\* a file-save.
C30_SaveSendsOneOfThree ==
    [][LET d == msui'.merge_dialog
           saves == {i \in 1..Len(msui'.sent) : msui'.sent[i].event = "file-save"}
           chosen == CASE d.button = "overwriteBtn" -> d.local
                       [] d.button = "keepServerBtn" -> d.server
                       [] d.button = "saveBtn" -> d.merged
                       [] OTHER -> <<>>
       IN /\ (msui'.body = "save_wp_mscolab" /\ msui' # msui)
             => /\ Cardinality(saves) <= 1
                /\ \A i \in saves :
                      /\ d.shown
                      /\ d.local = msui.waypoints_model
                      /\ msui'.sent[i].content.ftml \in {d.local, d.server, d.merged}
                /\ (d.shown /\ (~d.accepted \/ Len(chosen) = 0))
                      => /\ saves = {}
                         /\ msui'.waypoints_model = msui.waypoints_model
                         /\ msui'.files = msui.files
          /\ msui'.body = "fetch_wp_mscolab" => saves = {}]_vars

\* a save in which the user merged rows of both flight tracks sent the merged
\* track, which is neither the local nor the server one
C30_Witness ==
    /\ msui.body = "save_wp_mscolab"
    /\ Len(msui.sent) = 1
    /\ msui.sent[1].event = "file-save"
    /\ msui.sent[1].content.ftml = msui.merge_dialog.merged
    /\ msui.merge_dialog.merged \notin {msui.merge_dialog.local, msui.merge_dialog.server}

\* C31: the client's socket connection makes at most reconnection_attempts (5)
\* reconnection attempts after a transport failure; when all of them have
\* failed it stops retrying, and the connectivity failure is surfaced to the
\* application: the window learns of it and leaves its logged-in state.
C31_BoundedReconnectThenSurfaced ==
    /\ [](manager.attempts <= reconnection_attempts)
    /\ [][manager.phase = "failed" => manager'.attempts = manager.attempts]_vars
    /\ [](manager.phase = "failed" => <>(~msui.conn))

\* C32: when a user has two registered connections and is active in an
\* operation, the disconnect of either connection removes the user from that
\* operation's presence set and emits the decreased count, while the user's
\* other connection stays registered, stays in its rooms and is not
\* reconciled: the user is no longer counted although still connected.
C32_DisconnectOfOneDropsPresence ==
    [][(/\ last'.h = "disconnect"
        /\ last'.u # None
        /\ \E i \in 1..Len(sockets) :
              sockets[i].u_id = last'.u /\ sockets[i].s_id # last'.sid)
       => /\ \A op \in Ops :
                last'.u \in active_set(active_users_per_operation, op)
                => /\ last'.u \notin active_set(active_users_per_operation', op)
                   /\ \E k \in 1..Len(emitted') :
                         /\ emitted'[k].event = "active-user-update"
                         /\ emitted'[k].op = op
                         /\ emitted'[k].arg =
                               Cardinality(active_set(active_users_per_operation, op)) - 1
          /\ \A i \in 1..Len(sockets) :
                sockets[i].s_id # last'.sid
                => /\ \E j \in 1..Len(sockets') : sockets'[j] = sockets[i]
                   /\ rooms'[sockets[i].s_id] = rooms[sockets[i].s_id]
                   /\ (sockets[i].s_id \in connected
                          <=> sockets[i].s_id \in connected')]_vars

\* one of two connections of a user was closed while the user was active: the
\* user is in no presence set, and the other connection is live, registered
\* for the user and in a room
C32_Witness ==
    /\ last.h = "disconnect"
    /\ last.u # None
    /\ emitted # <<>>
    /\ \A op \in Ops : last.u \notin active_set(active_users_per_operation, op)
    /\ \E i \in 1..Len(sockets) :
          /\ sockets[i].u_id = last.u
          /\ sockets[i].s_id \in connected
          /\ rooms[sockets[i].s_id] # {}

\* C33: when ConnectionManager.send_message, edit_message, delete_message or
\* save_file finds the user token invalid, it sends no socket event and emits
\* signal_reload(op_id), and this always ends in a client logout (socket
\* disconnected, token cleared), whatever the active operation and the
\* work-locally setting are.
C33_InvalidTokenSenderLogsOut ==
    [][(msui' # msui /\ msui'.signal_reload # None)
          => /\ msui'.sent = <<>>
             /\ msui'.token = NoToken
             /\ ~msui'.conn
             /\ manager'.phase = "closed"]_vars

\* C34: an operation-selected event by a user for the operation that user is
\* already active in leaves the presence mapping (its keys and the set under
\* each key) equal to what it was before the event, and the last
\* active-user-update it emits is for that operation and carries the count
\* the operation had before the event.
C34_ReselectKeepsPresence ==
    [][(/\ last'.h = "operation-selected"
        /\ token_user(last'.tok) # None
        /\ token_user(last'.tok) \in active_set(active_users_per_operation, last'.op))
       => /\ active_keys(active_users_per_operation') =
                active_keys(active_users_per_operation)
          /\ \A o \in Ops : active_set(active_users_per_operation', o) =
                               active_set(active_users_per_operation, o)
          /\ emitted' # <<>>
          /\ emitted'[Len(emitted')].event = "active-user-update"
          /\ emitted'[Len(emitted')].op = last'.op
          /\ emitted'[Len(emitted')].arg =
                active_count(active_users_per_operation, last'.op)]_vars

\* one of two users active in the same operation selected it again: the
\* update of the removal carries 1, the one of the re-adding 2, and both
\* users are active in the operation
C34_Witness ==
    /\ last.h = "operation-selected"
    /\ Len(emitted) = 2
    /\ emitted[1].op = last.op
    /\ emitted[1].arg = 1
    /\ emitted[2].op = last.op
    /\ emitted[2].arg = 2
    /\ active_set(active_users_per_operation, last.op) = Users

\* C35: handle_operation_selected performs no permission check: a user with
\* a valid token is added to the presence set of whatever op_id the event
\* names, whether or not a Permission row of the user exists for it, so a
\* presence set can hold a user without a permission on the operation.
C35_SelectIgnoresPermissions ==
    [][(last'.h = "operation-selected" /\ token_user(last'.tok) # None)
       => /\ token_user(last'.tok) \in active_set(active_users_per_operation', last'.op)
          /\ emitted' # <<>>
          /\ emitted'[Len(emitted')] =
                emit("active-user-update", last'.op,
                     active_count(active_users_per_operation', last'.op), connected)]_vars

\* a user selected an operation it holds no permission on and is a member of
\* that operation's presence set
C35_Witness ==
    /\ last.h = "operation-selected"
    /\ token_user(last.tok) # None
    /\ ~\E p \in permissions : p.u_id = token_user(last.tok) /\ p.op_id = last.op
    /\ token_user(last.tok) \in active_set(active_users_per_operation, last.op)

\* C36: join_creator_to_operation performs no permission check: after an
\* add-user-to-operation with a valid token the sending connection is a member
\* of the room of the op_id named, whether or not the token's user is the
\* creator of that operation or holds any permission on it, and whether or
\* not the connection is registered.
C36_JoinIgnoresPermissions ==
    [][(last'.h = "add-user-to-operation" /\ token_user(last'.tok) # None)
       => str(last'.op) \in rooms'[last'.sid]]_vars

\* a connection that never sent start is in the room of an operation on which
\* the user of its token holds no permission
C36_Witness ==
    /\ last.h = "add-user-to-operation"
    /\ token_user(last.tok) # None
    /\ ~\E p \in permissions : p.u_id = token_user(last.tok) /\ p.op_id = last.op
    /\ \A i \in 1..Len(sockets) : sockets[i].s_id # last.sid
    /\ str(last.op) \in rooms[last.sid]

\* C37: handle_message_edit and handle_message_delete check the sender's
\* permission on the op_id of the event and not on the operation or the
\* author of the message named by message_id: when the sender is non-viewer
\* on the op_id of the event, the message of that id is edited or deleted
\* whatever operation it belongs to and whoever wrote it, and the event is
\* emitted.
C37_EditDeleteCheckEventOperation ==
    [][(/\ last'.h \in {"edit-message", "delete-message"}
        /\ token_user(last'.tok) # None
        /\ non_viewer(permissions, token_user(last'.tok), last'.op))
       => /\ Len(emitted') = 1
          /\ emitted'[1].event = IF last'.h = "edit-message" THEN "edit-message-client"
                                 ELSE "delete-message-client"
          /\ LET id == IF last'.h = "edit-message" THEN emitted'[1].arg.message_id
                       ELSE emitted'[1].arg
             IN \A m \in messages : m.id = id =>
                   IF last'.h = "edit-message"
                   THEN [m EXCEPT !.text = emitted'[1].arg.new_message_text] \in messages'
                   ELSE \A x \in messages' : x.id # id]_vars

\* a user edited, by naming an operation it is non-viewer on, a message that
\* another user wrote in an operation on which the editor holds no permission
C37_Witness ==
    /\ last.h = "edit-message"
    /\ Len(emitted) = 1
    /\ \E m \in messages :
          /\ m.id = emitted[1].arg.message_id
          /\ m.text = emitted[1].arg.new_message_text
          /\ m.op_id # last.op
          /\ m.u_id # token_user(last.tok)
          /\ ~\E p \in permissions : p.u_id = token_user(last.tok) /\ p.op_id = m.op_id

\* C38: the nesting counter verify_user_token.depth has, after every wrapped
\* call has returned or raised, the value it had before the call, which is 0
\* when no wrapped call is in progress; a token or socket failure inside a
\* nested wrapped call (counter above 1) is re-raised to the outermost
\* wrapped call, which handles it and calls logout exactly once, so that the
\* client action ends logged out with no exception left.
C38_DepthRestoredAndOneLogout ==
    /\ [](msui.depth = 0)
    /\ [][msui' # msui
            => /\ msui'.depth = msui.depth
               /\ msui'.logouts <= 1
               /\ msui'.raised_at > 1
                     => /\ msui'.logouts = 1
                        /\ ~msui'.raised
                        /\ msui'.token = NoToken
                        /\ ~msui'.conn
                        /\ msui'.mscolab_server_url = NoUrl]_vars

\* a client action whose outermost token check passed failed inside a nested
\* wrapped call and ended with one logout
C38_Witness ==
    /\ msui.raised_at = 2
    /\ Len(msui.checks) = 2
    /\ msui.checks[1]
    /\ msui.logouts = 1
    /\ msui.depth = 0
    /\ msui.token = NoToken

\* C39: the client applies operation-scoped inbound events only to its active
\* operation: an active-user-update{op, n} sets the user-count label to n when
\* op equals active_op_id and leaves it otherwise; a file-changed{op} asks the
\* server for the waypoints only when op equals active_op_id and work-locally
\* is unchecked; in every other case the waypoints model, the local files and
\* the label are what they were, no request is made and the client stays
\* logged in.
C39_InboundEventsOfActiveOperationOnly ==
    [][msui' # msui =>
        /\ msui'.inbound.event = "active-user-update"
              => /\ msui'.user_count =
                       IF msui'.inbound.op_id = msui.active_op_id
                       THEN msui'.inbound.count ELSE msui.user_count
                 /\ msui'.waypoints_model = msui.waypoints_model
                 /\ msui'.files = msui.files
                 /\ msui'.checks = <<>>
                 /\ msui'.token = msui.token
        /\ msui'.inbound.event = "file-changed"
              => IF msui'.inbound.op_id = msui.active_op_id /\ ~msui.work_locally
                 THEN Len(msui'.checks) = 1
                 ELSE /\ msui'.checks = <<>>
                      /\ msui'.waypoints_model = msui.waypoints_model
                      /\ msui'.files = msui.files
                      /\ msui'.user_count = msui.user_count
                      /\ msui'.token = msui.token]_vars

\* the label shows a count of the active operation, and an update for the
\* other operation with another count has just been handled
C39_Witness ==
    /\ msui.inbound.event = "active-user-update"
    /\ msui.active_op_id # None
    /\ msui.inbound.op_id # msui.active_op_id
    /\ msui.user_count > 0
    /\ msui.user_count # msui.inbound.count

\* C40: for every user and every value of the expiration setting (EXPIRATION
\* configured, an explicit argument, or neither), generate_auth_token returns
\* a token for which verify_auth_token, called before the token's expiry,
\* returns that same user.
C40_TokenRoundTrip ==
    LET lifetime == IF auth.configured # None THEN auth.configured
                    ELSE IF auth.expiration # None THEN auth.expiration
                    ELSE default_expiration
    IN (auth.verified /\ auth.now < auth.issued + lifetime)
          => auth.result = auth.user

====
